---------------------------- MODULE Spec2Model ----------------------------
(***************************************************************************)
(* A model of minicode's agent turn engine (src/src/minicode/cli.py):      *)
(* the turn loop of main(), its retry loop, the stream assembly, the tool  *)
(* dispatcher, the built-in tools with their confirmation gate, and the    *)
(* context compactor.                                                      *)
(*                                                                         *)
(* Conventions.  A Python dict is a record whose DOMAIN is the dict's key  *)
(* set (an absent key or attribute is an absent field).  A Python list is  *)
(* a sequence.  Text is a string; the argument text of a tool call is a    *)
(* sequence of lexical tokens, so that slices concatenate with \o exactly  *)
(* as str += does and json.loads is a real parse.  Times are counted in    *)
(* half seconds (delay = 1 is 0.5 s), which keeps them integers.           *)
(***************************************************************************)
EXTENDS Integers, Sequences, FiniteSets, TLC

VARIABLES
    messages,          \* main: the conversation (cli.py:665)
    pc,                \* main: where control is
    skip_permissions,  \* args.skip_permissions (cli.py:584)
    retries_left,      \* cli.py:683
    delay,             \* cli.py:684, in half seconds
    locals,            \* the locals of the stream loop (cli.py:696-703)
    k,                 \* 1-based position of the for loop of cli.py:843
    pending,           \* the tool call waiting at its confirmation gate
    files,             \* the file system the tools act on
    started,           \* commands started by subprocess.Popen (cli.py:133)
    fetched,           \* requests made to the web provider (cli.py:490,552)
    tries,             \* history: the result of each attempt of the request
    waits,             \* history: the time.sleep arguments of the request
    issued,            \* history: the conversation when the request was issued
    requests,          \* history: number of model requests issued so far
    turns,             \* history: number of user messages entered so far
    invoked,           \* history: ids of the batch whose tool body was entered
    step,              \* history: the step taken last
    gate,              \* history: the inputs given at the last confirmation gate
    pre,               \* history: files, started, fetched when the call began
    reported,          \* history: the error the turn loop printed last (cli.py:794)
    compact_in         \* history: the argument of the last compact() call

vars == <<messages, pc, skip_permissions, retries_left, delay, locals, k, pending,
          files, started, fetched, tries, waits, issued, requests, turns,
          invoked, step, gate, pre, reported, compact_in>>

---------------------------------------------------------------------------
(* Bounds of the model.                                                    *)

MaxLen == 6          \* longest conversation given to compact in SpecCompact
MaxRequests == 2     \* model requests issued in one run
MaxTurns == 2        \* user messages entered in one run
MaxToolCalls == 2    \* tool calls the provider requests in one run
ToolsMaxCalls == 1   \* tool calls requested in one run of SpecTools
ToolsMaxRequests == 1    \* model requests in one run of SpecDispatch, SpecTools
MaxText == 3         \* characters of a file's content in SpecEdit
MaxPattern == 2      \* characters of old_string in SpecEdit
MaxLines == 2        \* lines a child process writes in SpecBash
MaxChunks == 3       \* chunks of a stream in SpecStream
RestartChunks == 2   \* chunks of a stream in SpecRestart
ToolsMaxTurns == 1   \* user messages in one run of SpecDispatch, SpecTools

---------------------------------------------------------------------------
(* Python list slicing.                                                    *)

Min(a, b) == IF a < b THEN a ELSE b
Max(a, b) == IF a > b THEN a ELSE b

\* A slice bound as Python normalises it: negative counts from the end,
\* everything is clamped to 0 .. len.
SliceIndex(i, n) == IF i < 0 THEN Max(n + i, 0) ELSE Min(i, n)

\* s[start:stop] for a 0-based Python slice of the list s.
PySlice(s, start, stop) ==
    LET lo == SliceIndex(start, Len(s))
        hi == SliceIndex(stop, Len(s))
    IN  IF lo >= hi THEN <<>> ELSE SubSeq(s, lo + 1, hi)

\* s[start:]
PySliceFrom(s, start) == PySlice(s, start, Len(s))

---------------------------------------------------------------------------
(* Context compactor (cli.py:557-579).                                     *)

Placeholder == "(content removed to save space in the context window)"

\* A compactor that keeps half of all messages as recent
RecentCount_half(ms) == (Len(ms) + 1) \div 2

\* cli.py:565
RecentCount(ms) == (Len(ms) - 1) \div 2

\* A compactor that turns a tool message into a user message
CompactOne_as_user(message) ==
    IF message.role = "tool"
    THEN [role |-> "user", content |-> Placeholder]
    ELSE message

\* cli.py:568-575, the body of the for loop
CompactOne(message) ==
    IF message.role = "tool"
    THEN [role |-> "tool",
          tool_call_id |-> message.tool_call_id,
          content |-> Placeholder]
    ELSE message

\* A compactor whose loop forgets the upper bound of its span
CompactMiddle_unbounded(ms) == PySliceFrom(ms, 1)

\* cli.py:567, the span the for loop runs over
CompactMiddle(ms) == PySlice(ms, 1, -RecentCount(ms))

\* A compactor that loses the first of the recent messages
CompactRecent_short(ms) == Tail(PySliceFrom(ms, -RecentCount(ms)))

\* cli.py:577, the messages appended unchanged
CompactRecent(ms) == PySliceFrom(ms, -RecentCount(ms))

\* A compactor that does not put message 0 back in front
compact_headless(ms) ==
    IF Len(ms) <= 3
    THEN ms
    ELSE [i \in 1..Len(CompactMiddle(ms)) |-> CompactOne(CompactMiddle(ms)[i])]
         \o CompactRecent(ms)

\* cli.py:557-579
compact(ms) ==
    IF Len(ms) <= 3
    THEN ms
    ELSE <<ms[1]>>
         \o [i \in 1..Len(CompactMiddle(ms)) |-> CompactOne(CompactMiddle(ms)[i])]
         \o CompactRecent(ms)

---------------------------------------------------------------------------
(* Text.  File contents and tool string arguments are sequences of          *)
(* one-character strings, so that len(), slicing, `in`, count() and         *)
(* replace() are computed as Python computes them.                          *)

RECURSIVE Str(_)
\* ''.join(text): the text as one string (used where text is printed into
\* a JSON payload).
Str(text) == IF text = <<>> THEN "" ELSE Head(text) \o Str(Tail(text))

Digit(d) == <<"0", "1", "2", "3", "4", "5", "6", "7", "8", "9">>[d + 1]

RECURSIVE Digits(_)
\* str(n) for n >= 0, as text
Digits(n) == IF n < 10 THEN <<Digit(n)>> ELSE Digits(n \div 10) \o <<Digit(n % 10)>>

---------------------------------------------------------------------------
(* JSON values.  A JSON string is [str |-> text], a boolean [bool |-> b],   *)
(* an integer [int |-> n]; an object is a function from its keys.           *)

JStr(text) == [str |-> text]
JBool(b) == [bool |-> b]
JInt(n) == [int |-> n]

\* The tokens of an argument text.
LBrace == [t |-> "{"]
RBrace == [t |-> "}"]
Member(key, value) == [t |-> "member", key |-> key, value |-> value]
Scalar == [t |-> "scalar"]

RECURSIVE MembersToObject(_)
\* The dict json.loads builds from the members of an object: a later
\* duplicate key replaces an earlier one.
MembersToObject(toks) ==
    IF toks = <<>>
    THEN <<>>
    ELSE LET last == toks[Len(toks)]
             rest == MembersToObject(SubSeq(toks, 1, Len(toks) - 1))
         IN  (last.key :> last.value) @@ rest

\* json.loads (cli.py:851) on a token text: an object is "{" members "}",
\* a lone scalar token is a JSON value that is not an object, anything else
\* (the empty text included) raises json.JSONDecodeError.
JsonLoads(toks) ==
    IF /\ Len(toks) >= 2
       /\ toks[1] = LBrace
       /\ toks[Len(toks)] = RBrace
       /\ \A i \in 2..(Len(toks) - 1) : toks[i].t = "member"
    THEN [ok |-> TRUE, object |-> TRUE,
          value |-> MembersToObject(SubSeq(toks, 2, Len(toks) - 1))]
    ELSE IF toks = <<Scalar>>
    THEN [ok |-> TRUE, object |-> FALSE, value |-> <<>>]
    ELSE [ok |-> FALSE, object |-> FALSE, value |-> <<>>]

\* json.dumps of an error payload (cli.py:878, 886); escaping of the
\* message's characters is not modelled.
DumpsError(msg) == "{\"error\": \"" \o msg \o "\"}"

---------------------------------------------------------------------------
(* Tool definitions: the parameter schema of each tool.                     *)

\* cli.py:81-100
BashParameters ==
    [properties |-> [command |-> [type |-> "string"],
                     cwd |-> [type |-> "string"],
                     timeout |-> [type |-> "number", minimum |-> 1]],
     required |-> {"command", "cwd"}]

\* cli.py:192-220
ReadParameters ==
    [properties |-> [file_path |-> [type |-> "string"],
                     offset |-> [type |-> "integer", minimum |-> 1],
                     limit |-> [type |-> "integer", minimum |-> 1],
                     chars_limit |-> [type |-> "integer", minimum |-> 1]],
     required |-> {"file_path"}]

\* cli.py:283-300
WriteParameters ==
    [properties |-> [file_path |-> [type |-> "string"],
                     overwrite |-> [type |-> "boolean"],
                     content |-> [type |-> "string"]],
     required |-> {"file_path", "overwrite", "content"}]

\* cli.py:374-392
EditParameters ==
    [properties |-> [file_path |-> [type |-> "string"],
                     old_string |-> [type |-> "string"],
                     new_string |-> [type |-> "string"]],
     required |-> {"file_path", "old_string", "new_string"}]

\* cli.py:461-470
WebFetchParameters ==
    [properties |-> [url |-> [type |-> "string"]],
     required |-> {"url"}]

\* cli.py:520-532
WebSearchParameters ==
    [properties |-> [query |-> [type |-> "string"],
                     max_results |-> [type |-> "integer"]],
     required |-> {"query", "max_results"}]

\* cli.py:642-657: the toolset, name -> parameter schema.  The web tools
\* are in it only when TAVILY_API_KEY is set; the model has it set.
tools ==
    [Bash |-> BashParameters,
     Read |-> ReadParameters,
     Write |-> WriteParameters,
     Edit |-> EditParameters,
     WebFetch |-> WebFetchParameters,
     WebSearch |-> WebSearchParameters]

\* Whether a JSON value has the schema type ty.
HasType(v, ty) ==
    CASE ty = "string" -> "str" \in DOMAIN v
      [] ty = "boolean" -> "bool" \in DOMAIN v
      [] ty = "integer" -> "int" \in DOMAIN v
      [] ty = "number" -> "int" \in DOMAIN v
      [] OTHER -> FALSE

\* Whether the value of one property conforms to its schema.
PropertyOk(v, schema) ==
    /\ HasType(v, schema.type)
    /\ ("minimum" \in DOMAIN schema /\ "int" \in DOMAIN v) => v.int >= schema.minimum

\* jsonschema.validate (cli.py:856) of a parsed value against a tool's
\* parameters: type object, required keys, additionalProperties false,
\* and each property's own schema.
SchemaValid(parsed, parameters) ==
    /\ parsed.object
    /\ parameters.required \subseteq DOMAIN parsed.value
    /\ DOMAIN parsed.value \subseteq DOMAIN parameters.properties
    /\ \A key \in DOMAIN parsed.value :
           PropertyOk(parsed.value[key], parameters.properties[key])

\* The text of the jsonschema.ValidationError, e.message: the library words
\* it; the model keeps only which kind of violation it reports.
SchemaMessage(parsed, parameters) ==
    IF ~parsed.object THEN "value is not of type 'object'"
    ELSE IF ~(parameters.required \subseteq DOMAIN parsed.value)
    THEN "a required property is missing"
    ELSE IF ~(DOMAIN parsed.value \subseteq DOMAIN parameters.properties)
    THEN "Additional properties are not allowed"
    ELSE "a property does not conform to its schema"

---------------------------------------------------------------------------
(* The file system.  files maps each existing path (a text) to its node:    *)
(* [kind |-> "file" or "dir", content |-> text, r |-> readable,             *)
(*  w |-> writable].  A path outside DOMAIN files does not exist.           *)

\* os.path.isabs (posixpath): the path starts with "/"
IsAbs(path) == Len(path) > 0 /\ path[1] = "/"

\* str.rfind("/") + 1 on a path: the 1-based position of the last "/", 0 if none
LastSlash(path) ==
    LET at == {i \in 1..Len(path) : path[i] = "/"}
    IN  IF at = {} THEN 0 ELSE CHOOSE i \in at : \A j \in at : j <= i

RECURSIVE RStripSlash(_)
\* str.rstrip("/")
RStripSlash(path) ==
    IF path # <<>> /\ path[Len(path)] = "/"
    THEN RStripSlash(SubSeq(path, 1, Len(path) - 1))
    ELSE path

\* os.path.dirname (posixpath): the head up to the last "/", with trailing
\* slashes removed unless the head is all slashes
Dirname(path) ==
    LET head == SubSeq(path, 1, LastSlash(path))
    IN  IF head # <<>> /\ (\E i \in 1..Len(head) : head[i] # "/")
        THEN RStripSlash(head)
        ELSE head

Exists(fs, path) == path \in DOMAIN fs
IsFile(fs, path) == Exists(fs, path) /\ fs[path].kind = "file"
IsDir(fs, path) == Exists(fs, path) /\ fs[path].kind = "dir"
Readable(fs, path) == Exists(fs, path) /\ fs[path].r
Writable(fs, path) == Exists(fs, path) /\ fs[path].w

\* open(path, "w").write(content): creates the file or truncates it
WriteFile(fs, path, content) ==
    IF Exists(fs, path)
    THEN [fs EXCEPT ![path].content = content]
    ELSE (path :> [kind |-> "file", content |-> content, r |-> TRUE, w |-> TRUE]) @@ fs

---------------------------------------------------------------------------
(* Python str operations on texts.                                          *)

\* Whether sub matches text at 1-based position i
MatchAt(text, sub, i) ==
    /\ i >= 1
    /\ i + Len(sub) - 1 <= Len(text)
    /\ \A j \in 1..Len(sub) : text[i + j - 1] = sub[j]

\* str.find from 1-based position from: the first match position, 0 if none
Find(text, sub, from) ==
    LET at == {i \in from..(Len(text) + 1) : MatchAt(text, sub, i)}
    IN  IF at = {} THEN 0 ELSE CHOOSE i \in at : \A j \in at : i <= j

\* sub in text
Contains(text, sub) == Find(text, sub, 1) # 0

RECURSIVE CountFrom(_, _, _)
\* str.count scans left to right and counts non-overlapping matches
CountFrom(text, sub, from) ==
    LET i == Find(text, sub, from)
    IN  IF i = 0 THEN 0
        ELSE IF sub = <<>> THEN Len(text) + 2 - from
        ELSE 1 + CountFrom(text, sub, i + Len(sub))

\* text.count(sub)
Count(text, sub) == CountFrom(text, sub, 1)

\* text.replace(old, new, 1): the first match replaced
ReplaceFirst(text, old, new) ==
    LET i == Find(text, old, 1)
    IN  IF i = 0 THEN text
        ELSE SubSeq(text, 1, i - 1) \o new \o SubSeq(text, i + Len(old), Len(text))

RECURSIVE SplitLines(_)
\* f.readlines() / str.splitlines(keepends=True): the lines of a text, each
\* keeping its "\n"; the text's alphabet has no other line boundary
SplitLines(text) ==
    IF text = <<>> THEN <<>>
    ELSE LET nl == Find(text, <<"\n">>, 1)
         IN  IF nl = 0 THEN <<text>>
             ELSE <<SubSeq(text, 1, nl)>> \o SplitLines(SubSeq(text, nl + 1, Len(text)))

RECURSIVE Join(_)
\* ''.join(lines)
Join(lines) == IF lines = <<>> THEN <<>> ELSE Head(lines) \o Join(Tail(lines))

RECURSIVE PadLeft(_, _)
\* format spec ">6": right-aligned in a field of the given width
PadLeft(text, width) == IF Len(text) >= width THEN text ELSE PadLeft(<<" ">> \o text, width)

---------------------------------------------------------------------------
(* What a tool call comes to: a returned payload (already json.dumps'ed),   *)
(* a ToolError with its message, any other Exception with its repr, or an   *)
(* interrupt (KeyboardInterrupt or EOFError).                               *)

Returned(payload) == [kind |-> "return", text |-> payload]
ToolError(msg) == [kind |-> "ToolError", text |-> msg]
Unexpected(repr) == [kind |-> "Exception", text |-> repr]
Interrupt == [kind |-> "Interrupt", text |-> ""]

\* A keyword argument with its default (the def lines of the tools)
Arg(arguments, key, default) ==
    IF key \in DOMAIN arguments THEN arguments[key] ELSE default

\* The 65536-character threshold above which output goes to an overflow file
InlineLimit == 65536

---------------------------------------------------------------------------
(* Confirmation gate (cli.py:29-38 and the block each tool repeats, e.g.    *)
(* cli.py:123-130).                                                         *)

\* confirm(message, default=True): the loop ends at the first input among
\* "y", "n", ""; the empty input is the default, yes
confirm(user_input) == IF user_input = "" THEN TRUE ELSE user_input = "y"

\* cli.py:125-130: the ToolError of a rejection
Rejection(user_input) ==
    IF user_input # ""
    THEN ToolError("User rejected with message: " \o user_input)
    ELSE ToolError("User rejected.")

---------------------------------------------------------------------------
(* Command Executor (cli.py:108-182).                                       *)

\* cli.py:109-116; "" when every check passes
BashPrecheck(a, fs) ==
    IF ~IsAbs(a.cwd.str) THEN "cwd must be an absolute path."
    ELSE IF ~Exists(fs, a.cwd.str) THEN "cwd does not exist."
    ELSE IF ~IsDir(fs, a.cwd.str) THEN "cwd is not a directory."
    ELSE ""

\* cli.py:162-182: the payload of a completed command
BashPayload(output, rc) ==
    IF Len(output) > InlineLimit
    THEN "{\"output\": {\"file_path\": \"<overflow file>\", \"total_lines\": "
         \o Str(Digits(Len(SplitLines(output)))) \o ", \"total_chars\": "
         \o Str(Digits(Len(output))) \o "}, \"exit_code\": " \o Str(Digits(rc)) \o "}"
    ELSE "{\"output\": {\"content\": \"" \o Str(output)
         \o "\"}, \"exit_code\": " \o Str(Digits(rc)) \o "}"

\* cli.py:132-182.  env.run is what the child process does: "exit" (it ends
\* within the timeout with env.rc and env.text as its output), "timeout",
\* "error" (Popen raises OSError) or "interrupt" (Ctrl-C during the wait).
\* The result is the file system afterwards, whether a child process was
\* launched, and what the call comes to.  A command's own effect on the
\* file system is not modelled.
BashEffect(a, fs, env) ==
    LET timeout == Arg(a, "timeout", JInt(60)).int
    IN  CASE env.run = "error" ->
               [files |-> fs, launched |-> 0,
                out |-> Unexpected("OSError('Popen failed')")]
          [] env.run = "timeout" ->
               [files |-> fs, launched |-> 1,
                out |-> ToolError("Timed out after " \o Str(Digits(timeout)) \o " second(s).")]
          [] env.run = "interrupt" ->
               [files |-> fs, launched |-> 1, out |-> Interrupt]
          [] OTHER ->
               [files |-> fs, launched |-> 1,
                out |-> Returned(BashPayload(env.text, env.rc))]

---------------------------------------------------------------------------
(* File Reader (cli.py:227-274).                                            *)

\* cli.py:228-238
ReadPrecheck(a, fs) ==
    IF ~IsAbs(a.file_path.str) THEN "file_path must be an absolute path."
    ELSE IF ~Exists(fs, a.file_path.str) THEN "file_path does not exist."
    ELSE IF ~IsFile(fs, a.file_path.str) THEN "file_path is not a regular file."
    ELSE IF ~Readable(fs, a.file_path.str) THEN "file_path is not readable."
    ELSE ""

\* cli.py:248: f'... (truncated to {limit} lines)\n'
LineMarker(limit) ==
    <<".", ".", ".", " ", "(", "t", "r", "u", "n", "c", "a", "t", "e", "d", " ", "t", "o", " ">>
    \o Digits(limit) \o <<" ", "l", "i", "n", "e", "s", ")", "\n">>

\* cli.py:253: f'... (truncated to {chars_limit} chars)\n'
CharMarker(chars_limit) ==
    <<".", ".", ".", " ", "(", "t", "r", "u", "n", "c", "a", "t", "e", "d", " ", "t", "o", " ">>
    \o Digits(chars_limit) \o <<" ", "c", "h", "a", "r", "s", ")", "\n">>

\* cli.py:245-248: the lines from offset, cut to limit
ReadLines(full_lines, offset, limit) ==
    LET lines == PySliceFrom(full_lines, offset - 1)
    IN  IF Len(lines) > limit
        THEN PySlice(lines, 0, limit) \o <<LineMarker(limit)>>
        ELSE lines

\* The character cut taken already at chars_limit characters
ReadContent_at(full_lines, offset, limit, chars_limit) ==
    LET content == Join(ReadLines(full_lines, offset, limit))
    IN  IF Len(content) >= chars_limit
        THEN PySlice(content, 0, chars_limit) \o CharMarker(chars_limit)
        ELSE content

\* cli.py:250-253: the content, cut to chars_limit
ReadContent(full_lines, offset, limit, chars_limit) ==
    LET content == Join(ReadLines(full_lines, offset, limit))
    IN  IF Len(content) > chars_limit
        THEN PySlice(content, 0, chars_limit) \o CharMarker(chars_limit)
        ELSE content

\* cli.py:255: each line of the content prefixed by its number
NumberLines(content, offset) ==
    LET lines == SplitLines(content)
    IN  Join([i \in 1..Len(lines) |->
                 PadLeft(Digits(offset + i - 1), 6) \o <<"\t">> \o lines[i]])

\* cli.py:240-255: result_content, the content the read returns
ReadResultContent(a, fs) ==
    LET full_lines == SplitLines(fs[a.file_path.str].content)
        offset == Arg(a, "offset", JInt(1)).int
        limit == Arg(a, "limit", JInt(1000)).int
        chars_limit == Arg(a, "chars_limit", JInt(InlineLimit)).int
    IN  NumberLines(ReadContent(full_lines, offset, limit, chars_limit), offset)

\* cli.py:240-255, 270-274: the payload of a read
ReadPayload(a, fs) ==
    LET full_content == fs[a.file_path.str].content
        full_lines == SplitLines(full_content)
        result_content == ReadResultContent(a, fs)
    IN  "{\"content\": \"" \o Str(result_content) \o "\", \"total_lines\": "
        \o Str(Digits(Len(full_lines))) \o ", \"total_chars\": "
        \o Str(Digits(Len(full_content))) \o "}"

\* cli.py:268-274: what follows the gate
ReadEffect(a, fs, env) ==
    [files |-> fs, launched |-> 0, out |-> Returned(ReadPayload(a, fs))]

---------------------------------------------------------------------------
(* The diff shown and returned by File Writer and File Editor               *)
(* (cli.py:41-51).  difflib words the hunks; the model keeps what the text  *)
(* depends on: the two labels and the two contents, and that equal          *)
(* contents give the empty diff.                                            *)

DiffPlain(old_content, new_content, old_file, new_file) ==
    IF old_content = new_content THEN ""
    ELSE "--- " \o old_file \o " +++ " \o new_file
         \o " -" \o Str(old_content) \o " +" \o Str(new_content)

---------------------------------------------------------------------------
(* File Writer (cli.py:307-365).                                            *)

\* cli.py:311: os.path.dirname(file_path) or '.'
ParentDir(path) == IF Dirname(path) = <<>> THEN <<".">> ELSE Dirname(path)

\* The checks with the overwrite check moved behind the two checks of the
\* existing path
WritePrecheck_late(a, fs) ==
    LET file_path == a.file_path.str
        parent_dir == ParentDir(file_path)
    IN  IF ~IsAbs(file_path) THEN "file_path must be an absolute path."
        ELSE IF ~Exists(fs, parent_dir) THEN "dirname(file_path) does not exist."
        ELSE IF ~Writable(fs, parent_dir) THEN "dirname(file_path) is not writable."
        ELSE IF ~Exists(fs, file_path) THEN ""
        ELSE IF ~IsFile(fs, file_path) THEN "file_path already exists and is not a regular file."
        ELSE IF ~Writable(fs, file_path) THEN "file_path already exists and is not writable."
        ELSE IF ~a.overwrite.bool THEN "file_path already exists and overwrite is false."
        ELSE ""

\* cli.py:308-334
WritePrecheck(a, fs) ==
    LET file_path == a.file_path.str
        parent_dir == ParentDir(file_path)
    IN  IF ~IsAbs(file_path) THEN "file_path must be an absolute path."
        ELSE IF ~Exists(fs, parent_dir) THEN "dirname(file_path) does not exist."
        ELSE IF ~Writable(fs, parent_dir) THEN "dirname(file_path) is not writable."
        ELSE IF ~Exists(fs, file_path) THEN ""
        ELSE IF ~a.overwrite.bool THEN "file_path already exists and overwrite is false."
        ELSE IF ~IsFile(fs, file_path) THEN "file_path already exists and is not a regular file."
        ELSE IF ~Writable(fs, file_path) THEN "file_path already exists and is not writable."
        ELSE ""

\* cli.py:360-365.  env.io = "error": open() raises OSError and the file is
\* left as it was.
WriteEffect(a, fs, env) ==
    IF env.io = "error"
    THEN [files |-> fs, launched |-> 0, out |-> Unexpected("OSError('open failed')")]
    ELSE [files |-> WriteFile(fs, a.file_path.str, a.content.str), launched |-> 0,
          out |-> Returned("{\"success\": true}")]

---------------------------------------------------------------------------
(* File Editor (cli.py:399-452).                                            *)

\* cli.py:400-422
EditPrecheck(a, fs) ==
    LET file_path == a.file_path.str
    IN  IF ~IsAbs(file_path) THEN "file_path must be an absolute path."
        ELSE IF ~Exists(fs, file_path) THEN "file_path does not exist."
        ELSE IF ~IsFile(fs, file_path) THEN "file_path is not a regular file."
        ELSE IF ~Readable(fs, file_path) THEN "file_path is not readable."
        ELSE IF ~Writable(fs, file_path) THEN "file_path is not writable."
        ELSE IF ~Contains(fs[file_path].content, a.old_string.str)
        THEN "old_string not found in file."
        ELSE IF Count(fs[file_path].content, a.old_string.str) > 1
        THEN "old_string appears multiple times in file. It must be unique."
        ELSE ""

\* cli.py:424
EditNewContent(a, fs) ==
    ReplaceFirst(fs[a.file_path.str].content, a.old_string.str, a.new_string.str)

\* cli.py:444-452
EditEffect(a, fs, env) ==
    IF env.io = "error"
    THEN [files |-> fs, launched |-> 0, out |-> Unexpected("OSError('open failed')")]
    ELSE [files |-> WriteFile(fs, a.file_path.str, EditNewContent(a, fs)), launched |-> 0,
          out |-> Returned("{\"success\": true, \"diff\": \""
                           \o DiffPlain(fs[a.file_path.str].content, EditNewContent(a, fs),
                                        Str(a.file_path.str), Str(a.file_path.str))
                           \o "\"}")]

---------------------------------------------------------------------------
(* Web Fetcher (cli.py:478-511) and Web Searcher (cli.py:540-554).          *)
(* env.run is what the provider request does: "exit" (it answers, with      *)
(* env.text as the content), "error" or "timeout" (the client raises) or    *)
(* "interrupt" (Ctrl-C while waiting).                                      *)

\* cli.py:490-511
WebFetchEffect(a, fs, env) ==
    CASE env.run = "interrupt" -> [files |-> fs, launched |-> 1, out |-> Interrupt]
      [] env.run \in {"error", "timeout"} ->
           [files |-> fs, launched |-> 1, out |-> Unexpected("Exception('provider failed')")]
      [] OTHER ->
           [files |-> fs, launched |-> 1,
            out |-> Returned(IF Len(env.text) > InlineLimit
                             THEN "{\"title\": \"t\", \"file_path\": \"<overflow file>\"}"
                             ELSE "{\"title\": \"t\", \"content\": \"" \o Str(env.text) \o "\"}")]

\* cli.py:552-554
WebSearchEffect(a, fs, env) ==
    CASE env.run = "interrupt" -> [files |-> fs, launched |-> 1, out |-> Interrupt]
      [] env.run \in {"error", "timeout"} ->
           [files |-> fs, launched |-> 1, out |-> Unexpected("Exception('provider failed')")]
      [] OTHER ->
           [files |-> fs, launched |-> 1,
            out |-> Returned("[{\"content\": \"" \o Str(env.text) \o "\"}]")]

---------------------------------------------------------------------------
(* A tool body, in the two parts its confirmation gate separates.           *)

\* The checks a tool makes before it shows its preview: the message of the
\* ToolError raised, or "" when the preview is reached.
Precheck(name, a, fs) ==
    CASE name = "Bash" -> BashPrecheck(a, fs)
      [] name = "Read" -> ReadPrecheck(a, fs)
      [] name = "Write" -> WritePrecheck(a, fs)
      [] name = "Edit" -> EditPrecheck(a, fs)
      [] OTHER -> ""

\* What a tool does once the gate is passed (or skipped).
Effect(name, a, fs, env) ==
    CASE name = "Bash" -> BashEffect(a, fs, env)
      [] name = "Read" -> ReadEffect(a, fs, env)
      [] name = "Write" -> WriteEffect(a, fs, env)
      [] name = "Edit" -> EditEffect(a, fs, env)
      [] name = "WebFetch" -> WebFetchEffect(a, fs, env)
      [] OTHER -> WebSearchEffect(a, fs, env)

---------------------------------------------------------------------------
(* Stream assembly (cli.py:696-769).  A chunk is [choices |-> <<choice>>]   *)
(* or [choices |-> <<>>], with a usage field when it carries a usage        *)
(* snapshot; a choice is [delta |-> d] with a finish_reason field when it   *)
(* carries one; a delta and a tool-call fragment hold the attributes that   *)
(* are not None (a fragment's function.name and function.arguments are its  *)
(* name and arguments fields).                                              *)

\* cli.py:696-703: the locals of an attempt; finish_reason and usage are
\* None, which is the absent field
InitialAcc ==
    [has_reasoning_content |-> FALSE,
     reasoning_content |-> "",
     has_reasoning_details |-> FALSE,
     reasoning_details |-> <<>>,
     content |-> "",
     tool_calls |-> <<>>]

\* An assembly in which a name slice replaces the name built so far
AssembleCall_replace(st, tc) ==
    IF st.raised THEN st
    ELSE LET opened == IF "id" \in DOMAIN tc
                       THEN [st.acc EXCEPT !.tool_calls =
                                Append(@, [id |-> tc.id, name |-> "", arguments |-> <<>>])]
                       ELSE st.acc
             n == Len(opened.tool_calls)
         IN  IF ("name" \in DOMAIN tc \/ "arguments" \in DOMAIN tc) /\ n = 0
             THEN [acc |-> opened, raised |-> TRUE]
             ELSE LET named == IF "name" \in DOMAIN tc
                               THEN [opened EXCEPT !.tool_calls[n].name = tc.name]
                               ELSE opened
                      argued == IF "arguments" \in DOMAIN tc
                                THEN [named EXCEPT !.tool_calls[n].arguments = @ \o tc.arguments]
                                ELSE named
                  IN  [acc |-> argued, raised |-> FALSE]

\* cli.py:742-763: one tool-call fragment.  st is [acc, raised]; raised
\* records the IndexError of tool_calls[-1] on an empty list.
AssembleCall(st, tc) ==
    IF st.raised THEN st
    ELSE LET opened == IF "id" \in DOMAIN tc
                       THEN [st.acc EXCEPT !.tool_calls =
                                Append(@, [id |-> tc.id, name |-> "", arguments |-> <<>>])]
                       ELSE st.acc
             n == Len(opened.tool_calls)
         IN  IF ("name" \in DOMAIN tc \/ "arguments" \in DOMAIN tc) /\ n = 0
             THEN [acc |-> opened, raised |-> TRUE]
             ELSE LET named == IF "name" \in DOMAIN tc
                               THEN [opened EXCEPT !.tool_calls[n].name = @ \o tc.name]
                               ELSE opened
                      argued == IF "arguments" \in DOMAIN tc
                                THEN [named EXCEPT !.tool_calls[n].arguments = @ \o tc.arguments]
                                ELSE named
                  IN  [acc |-> argued, raised |-> FALSE]

RECURSIVE AssembleCalls(_, _)
\* cli.py:741: for tool_call in delta_tool_calls
AssembleCalls(st, tcs) ==
    IF tcs = <<>> THEN st ELSE AssembleCalls(AssembleCall(st, Head(tcs)), Tail(tcs))

\* cli.py:711-715: the reasoning text of a delta, under either attribute name
HasReasoning(delta) == "reasoning_content" \in DOMAIN delta \/ "reasoning" \in DOMAIN delta
DeltaReasoning(delta) ==
    IF "reasoning_content" \in DOMAIN delta THEN delta.reasoning_content ELSE delta.reasoning

\* cli.py:706-769: one chunk
AssembleChunk(st, chunk) ==
    IF st.raised \/ chunk.choices = <<>> THEN st
    ELSE LET choice == chunk.choices[1]
             delta == choice.delta
             a1 == IF HasReasoning(delta)
                   THEN [st.acc EXCEPT !.has_reasoning_content = TRUE,
                                       !.reasoning_content = @ \o DeltaReasoning(delta)]
                   ELSE st.acc
             a2 == IF "reasoning_details" \in DOMAIN delta
                   THEN [a1 EXCEPT !.has_reasoning_details = TRUE,
                                   !.reasoning_details = @ \o delta.reasoning_details]
                   ELSE a1
             a3 == IF "content" \in DOMAIN delta /\ delta.content # ""
                   THEN [a2 EXCEPT !.content = @ \o delta.content]
                   ELSE a2
             s4 == IF "tool_calls" \in DOMAIN delta
                   THEN AssembleCalls([acc |-> a3, raised |-> FALSE], delta.tool_calls)
                   ELSE [acc |-> a3, raised |-> FALSE]
             a5 == IF "finish_reason" \in DOMAIN choice
                   THEN ("finish_reason" :> choice.finish_reason) @@ s4.acc
                   ELSE s4.acc
             a6 == IF "usage" \in DOMAIN chunk
                   THEN ("usage" :> chunk.usage) @@ a5
                   ELSE a5
         IN  IF s4.raised THEN s4 ELSE [acc |-> a6, raised |-> FALSE]

RECURSIVE AssembleChunks(_, _)
\* cli.py:705: for chunk in stream
AssembleChunks(st, chunks) ==
    IF chunks = <<>> THEN st ELSE AssembleChunks(AssembleChunk(st, Head(chunks)), Tail(chunks))

\* cli.py:696-769: the locals after the chunks of one attempt
Assemble(chunks) == AssembleChunks([acc |-> InitialAcc, raised |-> FALSE], chunks)

\* A message that always carries both reasoning fields
BuildMessage_always(acc) ==
    [role |-> "assistant",
     content |-> acc.content,
     tool_calls |->
         [i \in 1..Len(acc.tool_calls) |->
             [id |-> acc.tool_calls[i].id,
              type |-> "function",
              function |-> [name |-> acc.tool_calls[i].name,
                            arguments |-> acc.tool_calls[i].arguments]]],
     reasoning_details |-> acc.reasoning_details,
     reasoning_content |-> acc.reasoning_content]

\* cli.py:797-822: the assistant message built from the locals
BuildMessage(acc) ==
    LET message ==
            [role |-> "assistant",
             content |-> acc.content,
             tool_calls |->
                 [i \in 1..Len(acc.tool_calls) |->
                     [id |-> acc.tool_calls[i].id,
                      type |-> "function",
                      function |-> [name |-> acc.tool_calls[i].name,
                                    arguments |-> acc.tool_calls[i].arguments]]]]
        detailed == IF acc.has_reasoning_details
                    THEN ("reasoning_details" :> acc.reasoning_details) @@ message
                    ELSE message
    IN  IF acc.has_reasoning_content
        THEN ("reasoning_content" :> acc.reasoning_content) @@ detailed
        ELSE detailed

\* MINICODE_CONTEXT_WINDOW, at its default (cli.py:614)
ContextWindow == 128000

\* A check that compacts already at 80 percent
OverBudget_at(acc) ==
    /\ "usage" \in DOMAIN acc
    /\ acc.usage.total_tokens * 100 >= 80 * ContextWindow

\* cli.py:829-835: whether the usage calls for compaction.  percentage > 80
\* with percentage = tokens / window * 100.
OverBudget(acc) ==
    /\ "usage" \in DOMAIN acc
    /\ acc.usage.total_tokens * 100 > 80 * ContextWindow

\* cli.py:824-836: the conversation after the assistant message is appended
\* and the usage is checked
AfterAssistant(ms, acc) ==
    IF OverBudget(acc)
    THEN compact(Append(ms, BuildMessage(acc)))
    ELSE Append(ms, BuildMessage(acc))

---------------------------------------------------------------------------
(* Tool dispatcher (cli.py:843-887).                                        *)

\* A dispatcher that parses the arguments before it resolves the name
Admit_parse_first(call) ==
    IF ~JsonLoads(call.arguments).ok
    THEN ToolError("Invalid arguments: JSONDecodeError")
    ELSE IF call.name \notin DOMAIN tools
    THEN ToolError("Unknown tool.")
    ELSE IF ~SchemaValid(JsonLoads(call.arguments), tools[call.name])
    THEN ToolError("Invalid arguments: "
                   \o SchemaMessage(JsonLoads(call.arguments), tools[call.name]))
    ELSE [kind |-> "admitted", arguments |-> JsonLoads(call.arguments).value]

\* cli.py:846-858: resolve the name, parse the arguments, validate them.
\* The result is the ToolError of the first step that fails, or the parsed
\* arguments the tool body is called with.
Admit(call) ==
    IF call.name \notin DOMAIN tools
    THEN ToolError("Unknown tool.")
    ELSE IF ~JsonLoads(call.arguments).ok
    THEN ToolError("Invalid arguments: JSONDecodeError")
    ELSE IF ~SchemaValid(JsonLoads(call.arguments), tools[call.name])
    THEN ToolError("Invalid arguments: "
                   \o SchemaMessage(JsonLoads(call.arguments), tools[call.name]))
    ELSE [kind |-> "admitted", arguments |-> JsonLoads(call.arguments).value]

\* A dispatcher without the clause of cli.py:870-871, and one without the
\* clause of cli.py:880-887
Propagates_none(out) == FALSE
Propagates_unexpected(out) == out.kind \in {"Interrupt", "Exception"}

\* cli.py:870-871: the exceptions the dispatcher lets through
Propagates(out) == out.kind = "Interrupt"

\* A tool message that answers the first request of the batch whatever
\* request it is appended for
ToolMessage_stale(call, out) ==
    [role |-> "tool",
     tool_call_id |-> locals.tool_calls[1].id,
     content |-> IF out.kind = "return" THEN out.text ELSE DumpsError(out.text)]

\* cli.py:865-887: the tool message appended for a request
ToolMessage(call, out) ==
    [role |-> "tool",
     tool_call_id |-> call.id,
     content |-> IF out.kind = "return" THEN out.text ELSE DumpsError(out.text)]

---------------------------------------------------------------------------
(* Retry loop (cli.py:683-795).                                             *)

\* cli.py:683
RetriesInit == 5

\* cli.py:684: 0.5 s
DelayInit == 1

\* cli.py:791
NextDelay(d) == d * 2

\* cli.py:773-781: the errors the retry loop catches
TransientErrors ==
    {"httpx.HTTPError", "APIConnectionError", "APITimeoutError", "ConflictError",
     "InternalServerError", "RateLimitError", "UnprocessableEntityError"}

\* cli.py:792: the errors the turn loop catches: httpx.HTTPError and every
\* openai.APIError, the transient ones included
ProviderErrors ==
    TransientErrors \cup {"BadRequestError", "AuthenticationError",
                          "PermissionDeniedError", "NotFoundError"}

\* A retry loop that catches every provider error
IsTransient_all(e) == e \in ProviderErrors

\* cli.py:773-781: whether the retry loop catches the error
IsTransient(e) == e \in TransientErrors

\* A retry loop that tests retries_left before it is decremented
Exhausted_late(retries) == retries = 0

\* cli.py:782-785: whether the error is re-raised, given retries_left
\* before the decrement
Exhausted(retries) == retries - 1 = 0

---------------------------------------------------------------------------
(* The environment: what the provider streams, what the user types, what    *)
(* the file system holds and what processes and web requests do.            *)

Tmp == <<"/", "t">>
TmpX == <<"/", "t", "/", "x">>

Dir == [kind |-> "dir", content |-> <<>>, r |-> TRUE, w |-> TRUE]
File(content, w) == [kind |-> "file", content |-> content, r |-> TRUE, w |-> w]

\* The file systems a run may start from: /t empty, or holding the file x
FsEmpty == (Tmp :> Dir)
FsWithX == (TmpX :> File(<<"a", "b", "\n">>, TRUE)) @@ (Tmp :> Dir)

\* The system prompt (cli.py:659-663)
SystemMessage == [role |-> "system", content |-> "You are MiniCode"]

\* A chunk with one choice carrying a delta
Chunk(delta) == [choices |-> <<[delta |-> delta]>>]

\* The end of a stream: the finish signal and, depending on the provider,
\* a usage snapshot on the same chunk or on a chunk without choices
StreamTail(tail, reason) ==
    CASE tail = "over" ->
           <<[choices |-> <<[delta |-> <<>>, finish_reason |-> reason]>>,
              usage |-> [total_tokens |-> 102401]]>>
      [] tail = "at" ->
           <<[choices |-> <<[delta |-> <<>>, finish_reason |-> reason]>>,
              usage |-> [total_tokens |-> 102400]]>>
      [] tail = "trailing" ->
           <<[choices |-> <<[delta |-> <<>>, finish_reason |-> reason]>>],
             [choices |-> <<>>, usage |-> [total_tokens |-> 102401]]>>
      [] OTHER ->
           <<[choices |-> <<[delta |-> <<>>, finish_reason |-> reason]>>]>>

\* The fragments of one tool call: the first carries the identifier and the
\* first slice of the name, the others carry the remaining name slices and
\* the argument slices, one per chunk
CallChunks(id, shape) ==
    <<Chunk([tool_calls |-> <<[id |-> id, name |-> shape.name[1]]>>])>>
    \o [i \in 1..(Len(shape.name) - 1) |->
           Chunk([tool_calls |-> <<[name |-> shape.name[i + 1]]>>])]
    \o [i \in 1..Len(shape.arguments) |->
           Chunk([tool_calls |-> <<[arguments |-> shape.arguments[i]]>>])]

RECURSIVE BatchChunks(_, _)
BatchChunks(batch, base) ==
    IF batch = <<>> THEN <<>>
    ELSE CallChunks(base, Head(batch)) \o BatchChunks(Tail(batch), base + 1)

\* A complete stream: a text reply when the batch is empty, else the calls
MkStream(batch, base, tail) ==
    IF batch = <<>>
    THEN <<Chunk([content |-> "Hello"])>> \o StreamTail(tail, "stop")
    ELSE BatchChunks(batch, base) \o StreamTail(tail, "tool_calls")

\* A stream whose first tool-call fragment carries no identifier
OrphanStream == <<Chunk([tool_calls |-> <<[name |-> "Write"]>>])>>

Batches(shapes, n) == UNION {[1..m -> shapes] : m \in 0..n}

\* Call identifiers are unique in a run: the provider issues the next one
CallIds(ms) ==
    UNION {{ms[i].tool_calls[j].id : j \in 1..Len(ms[i].tool_calls)} :
              i \in {i \in 1..Len(ms) : ms[i].role = "assistant"}}

FreshId(ms) == Cardinality(CallIds(ms)) + 1

\* The streams the provider may send for the next request
Streams(W, ms) ==
    {MkStream(b, FreshId(ms), t) :
        b \in Batches(W.shapes, Min(W.max_batch, W.max_calls + 1 - FreshId(ms))),
        t \in W.tails}
    \cup W.extra

\* The argument texts of the call shapes
WriteArguments ==
    <<<<LBrace, Member("file_path", JStr(TmpX))>>,
      <<Member("overwrite", JBool(FALSE)), Member("content", JStr(<<"h", "i">>)), RBrace>>>>

\* An unknown tool with a malformed argument text; Write on /t/x, which
\* creates the file and is refused once the file exists
UnknownCall == [name |-> <<"Nope">>, arguments |-> <<<<LBrace>>>>]
WriteCall == [name |-> <<"Wr", "ite">>, arguments |-> WriteArguments]

\* The other call shapes of the tools specification
Object(members) == <<<<LBrace>> \o members \o <<RBrace>>>>
WriteOver ==
    [name |-> <<"Write">>,
     arguments |-> Object(<<Member("file_path", JStr(TmpX)), Member("overwrite", JBool(TRUE)),
                            Member("content", JStr(<<"h", "i">>))>>)]
WriteMalformed == [name |-> <<"Write">>, arguments |-> <<>>]
WriteMissing ==
    [name |-> <<"Write">>,
     arguments |-> Object(<<Member("file_path", JStr(TmpX)), Member("overwrite", JBool(TRUE))>>)]
WriteExtra ==
    [name |-> <<"Write">>,
     arguments |-> Object(<<Member("file_path", JStr(TmpX)), Member("overwrite", JBool(TRUE)),
                            Member("content", JStr(<<"h", "i">>)), Member("mode", JStr(<<"w">>))>>)]
BashCall ==
    [name |-> <<"Bash">>,
     arguments |-> Object(<<Member("command", JStr(<<"l", "s">>)), Member("cwd", JStr(Tmp))>>)]
ReadCall ==
    [name |-> <<"Read">>, arguments |-> Object(<<Member("file_path", JStr(TmpX))>>)]
EditCall ==
    [name |-> <<"Edit">>,
     arguments |-> Object(<<Member("file_path", JStr(TmpX)), Member("old_string", JStr(<<"a">>)),
                            Member("new_string", JStr(<<"c">>))>>)]
WebFetchCall ==
    [name |-> <<"WebFetch">>, arguments |-> Object(<<Member("url", JStr(<<"u">>))>>)]
WebSearchCall ==
    [name |-> <<"WebSearch">>,
     arguments |-> Object(<<Member("query", JStr(<<"q">>)), Member("max_results", JInt(1))>>)]

\* What a process, a provider request or an open() does
EnvOk == [run |-> "exit", io |-> "ok", rc |-> 0, text |-> <<"o", "\n">>]
EnvFail == [run |-> "exit", io |-> "ok", rc |-> 1, text |-> <<>>]
EnvError == [run |-> "error", io |-> "error", rc |-> 0, text |-> <<>>]
EnvTimeout == [run |-> "timeout", io |-> "ok", rc |-> 0, text |-> <<>>]
EnvInterrupt == [run |-> "interrupt", io |-> "ok", rc |-> 0, text |-> <<>>]

\* The environment of the turn-loop specification
TurnWorld ==
    [shapes |-> {UnknownCall, WriteCall},
     tails |-> {"none", "over"},
     extra |-> {OrphanStream},
     partial |-> {<<>>, CallChunks(1, WriteCall)},
     errors |-> {"RateLimitError", "BadRequestError"},
     texts |-> {""},
     envs |-> {EnvOk, EnvError},
     files |-> {FsEmpty},
     max_batch |-> MaxToolCalls,
     max_calls |-> MaxToolCalls,
     max_requests |-> MaxRequests,
     max_turns |-> MaxTurns]

---------------------------------------------------------------------------
(* The turn loop (cli.py:665-894).                                          *)

NoPending == [name |-> ""]
NoGate == [answer |-> "-", text |-> ""]

\* cli.py:665-667, the state when the first prompt is shown
Init(W) ==
    /\ messages = <<SystemMessage>>
    /\ pc = "prompt"
    /\ skip_permissions \in BOOLEAN
    /\ retries_left = RetriesInit
    /\ delay = DelayInit
    /\ locals = InitialAcc
    /\ k = 1
    /\ pending = NoPending
    /\ files \in W.files
    /\ started = 0
    /\ fetched = 0
    /\ tries = <<>>
    /\ waits = <<>>
    /\ issued = <<SystemMessage>>
    /\ requests = 0
    /\ turns = 0
    /\ invoked = <<>>
    /\ step = "Init"
    /\ gate = NoGate
    /\ pre = [files |-> files, started |-> 0, fetched |-> 0]
    /\ reported = ""
    /\ compact_in = <<>>

\* A loop that sets the retry budget once and carries it from request to
\* request
StartRequest_carry(ms) ==
    /\ retries_left' = retries_left
    /\ delay' = delay
    /\ tries' = <<>>
    /\ waits' = <<>>
    /\ issued' = ms
    /\ requests' = requests + 1

\* cli.py:683-684 at the top of the request loop: a new model request of
\* the conversation ms
StartRequest(ms) ==
    /\ retries_left' = RetriesInit
    /\ delay' = DelayInit
    /\ tries' = <<>>
    /\ waits' = <<>>
    /\ issued' = ms
    /\ requests' = requests + 1

SameRequest == UNCHANGED <<retries_left, delay, tries, waits, issued, requests>>
SameWorld == UNCHANGED <<files, started, fetched>>
SameBatch == UNCHANGED <<locals, k, pending, invoked, gate, pre>>

\* cli.py:670-678: the user enters a line at the prompt; an empty line
\* shows the prompt again
UserInput(W) ==
    /\ pc = "prompt"
    /\ turns < W.max_turns
    /\ \E user_input \in {"", "hi"} :
          IF user_input = ""
          THEN UNCHANGED vars
          ELSE /\ messages' = Append(messages, [role |-> "user", content |-> user_input])
               /\ pc' = "request"
               /\ StartRequest(messages')
               /\ turns' = turns + 1
               /\ step' = "UserInput"
               /\ SameWorld /\ SameBatch
               /\ UNCHANGED <<skip_permissions, reported, compact_in>>

\* cli.py:891-894: Ctrl-C or Ctrl-D at the prompt ends the program
PromptInterrupt ==
    /\ pc = "prompt"
    /\ pc' = "exited"
    /\ step' = "PromptInterrupt"
    /\ SameRequest /\ SameWorld /\ SameBatch
    /\ UNCHANGED <<messages, skip_permissions, turns, reported, compact_in>>

\* A loop that checks the usage and compacts before it appends the
\* assistant message
AttemptStream_compact_first(W) ==
    /\ pc = "request"
    /\ requests <= W.max_requests
    /\ \E chunks \in Streams(W, messages) :
          LET st == Assemble(chunks)
          IN  /\ locals' = st.acc
              /\ tries' = Append(tries, IF st.raised THEN "IndexError" ELSE "ok")
              /\ UNCHANGED <<retries_left, delay, waits, issued, requests>>
              /\ IF st.raised
                 THEN /\ pc' = "crashed"
                      /\ UNCHANGED <<messages, compact_in, k, invoked>>
                 ELSE /\ messages' = Append(IF OverBudget(st.acc) THEN compact(messages)
                                            ELSE messages, BuildMessage(st.acc))
                      /\ compact_in' = IF OverBudget(st.acc) THEN messages ELSE compact_in
                      /\ pc' = IF st.acc.tool_calls = <<>> THEN "prompt" ELSE "dispatch"
                      /\ k' = 1
                      /\ invoked' = <<>>
    /\ step' = "AttemptStream"
    /\ SameWorld
    /\ UNCHANGED <<skip_permissions, turns, pending, gate, pre, reported>>

\* cli.py:688-772, 797-841: an attempt whose stream is read to its end.
\* The assistant message is appended, the usage checked, and control goes
\* to the dispatcher or back to the prompt.  An IndexError raised by the
\* assembly is caught nowhere and ends the program.
AttemptStream(W) ==
    /\ pc = "request"
    /\ requests <= W.max_requests
    /\ \E chunks \in Streams(W, messages) :
          LET st == Assemble(chunks)
          IN  /\ locals' = st.acc
              /\ tries' = Append(tries, IF st.raised THEN "IndexError" ELSE "ok")
              /\ UNCHANGED <<retries_left, delay, waits, issued, requests>>
              /\ IF st.raised
                 THEN /\ pc' = "crashed"
                      /\ UNCHANGED <<messages, compact_in, k, invoked>>
                 ELSE /\ messages' = AfterAssistant(messages, st.acc)
                      /\ compact_in' = IF OverBudget(st.acc)
                                       THEN Append(messages, BuildMessage(st.acc))
                                       ELSE compact_in
                      /\ pc' = IF st.acc.tool_calls = <<>> THEN "prompt" ELSE "dispatch"
                      /\ k' = 1
                      /\ invoked' = <<>>
    /\ step' = "AttemptStream"
    /\ SameWorld
    /\ UNCHANGED <<skip_permissions, turns, pending, gate, pre, reported>>

\* The locals after an attempt that ends early: a failure of create()
\* leaves them as they were, a failure in the stream leaves what the
\* chunks read so far built
PartialLocals(chunks) == IF chunks = <<>> THEN locals ELSE Assemble(chunks).acc

\* cli.py:773-791, 792-795: an attempt that raises a transient error, at
\* create() or after some chunks.  With retries left the loop sleeps and
\* tries again; without, the error is re-raised to the turn loop, which
\* prints it and ends the turn.
AttemptTransient(W) ==
    /\ pc = "request"
    /\ requests <= W.max_requests
    /\ \E e \in W.errors, chunks \in W.partial :
          /\ IsTransient(e)
          /\ locals' = PartialLocals(chunks)
          /\ tries' = Append(tries, e)
          /\ retries_left' = retries_left - 1
          /\ IF Exhausted(retries_left)
             THEN /\ reported' = e
                  /\ pc' = "prompt"
                  /\ UNCHANGED <<delay, waits>>
             ELSE /\ waits' = Append(waits, delay)
                  /\ delay' = NextDelay(delay)
                  /\ pc' = "request"
                  /\ UNCHANGED reported
    /\ step' = "AttemptTransient"
    /\ SameWorld
    /\ UNCHANGED <<messages, skip_permissions, k, pending, issued, requests, turns,
                   invoked, gate, pre, compact_in>>

\* cli.py:792-795: an attempt that raises any other provider error
AttemptTerminal(W) ==
    /\ pc = "request"
    /\ requests <= W.max_requests
    /\ \E e \in W.errors, chunks \in W.partial :
          /\ ~IsTransient(e)
          /\ e \in ProviderErrors
          /\ locals' = PartialLocals(chunks)
          /\ tries' = Append(tries, e)
          /\ reported' = e
    /\ pc' = "prompt"
    /\ step' = "AttemptTerminal"
    /\ SameWorld
    /\ UNCHANGED <<messages, skip_permissions, retries_left, delay, k, pending, waits,
                   issued, requests, turns, invoked, gate, pre, compact_in>>

\* cli.py:888-890: Ctrl-C while the request is open, the stream is read or
\* the loop sleeps
AttemptInterrupt(W) ==
    /\ pc = "request"
    /\ requests <= W.max_requests
    /\ \E chunks \in W.partial : locals' = PartialLocals(chunks)
    /\ pc' = "prompt"
    /\ step' = "AttemptInterrupt"
    /\ SameRequest /\ SameWorld
    /\ UNCHANGED <<messages, skip_permissions, k, pending, turns, invoked, gate, pre,
                   reported, compact_in>>

\* The request the for loop of cli.py:843 is at
Call == locals.tool_calls[k]

\* Whether the tool counts its launches in started (a child process) or in
\* fetched (a request to the web provider)
Launch(name, n) ==
    /\ started' = IF name = "Bash" THEN started + n ELSE started
    /\ fetched' = IF name \in {"WebFetch", "WebSearch"} THEN fetched + n ELSE fetched

\* cli.py:865-890: what the dispatcher does with the end of a tool call.
\* An interrupt leaves the batch and the turn (cli.py:870-871, 888-890);
\* anything else appends one tool message and the for loop goes on, and
\* after the last request the turn loop issues the next model request.
Deliver(out) ==
    /\ pending' = NoPending
    /\ IF Propagates(out)
       THEN /\ messages' = messages
            /\ pc' = "prompt"
            /\ k' = k
            /\ SameRequest
       ELSE /\ messages' = Append(messages, ToolMessage(Call, out))
            /\ k' = k + 1
            /\ IF k < Len(locals.tool_calls)
               THEN pc' = "dispatch" /\ SameRequest
               ELSE pc' = "request" /\ StartRequest(messages')

\* cli.py:844-858, 872-879: the name does not resolve, the arguments do not
\* parse or do not validate: the ToolError becomes the tool message and no
\* tool body is entered
DispatchRefuse ==
    /\ pc = "dispatch"
    /\ Admit(Call).kind = "ToolError"
    /\ Deliver(Admit(Call))
    /\ step' = "DispatchRefuse"
    /\ pre' = [files |-> files, started |-> started, fetched |-> fetched]
    /\ SameWorld
    /\ UNCHANGED <<skip_permissions, locals, turns, invoked, gate, reported, compact_in>>

\* cli.py:863: the tool body is entered and one of its checks raises
\* ToolError before the preview
DispatchPrecheck ==
    /\ pc = "dispatch"
    /\ Admit(Call).kind = "admitted"
    /\ Precheck(Call.name, Admit(Call).arguments, files) # ""
    /\ invoked' = Append(invoked, Call.id)
    /\ Deliver(ToolError(Precheck(Call.name, Admit(Call).arguments, files)))
    /\ step' = "DispatchPrecheck"
    /\ pre' = [files |-> files, started |-> started, fetched |-> fetched]
    /\ SameWorld
    /\ UNCHANGED <<skip_permissions, locals, turns, gate, reported, compact_in>>

\* A tool body that performs its effect and then asks
DispatchGate_eager ==
    /\ pc = "dispatch"
    /\ ~skip_permissions
    /\ Admit(Call).kind = "admitted"
    /\ Precheck(Call.name, Admit(Call).arguments, files) = ""
    /\ invoked' = Append(invoked, Call.id)
    /\ pending' = [name |-> Call.name, arguments |-> Admit(Call).arguments]
    /\ pc' = "confirm"
    /\ step' = "DispatchGate"
    /\ pre' = [files |-> files, started |-> started, fetched |-> fetched]
    /\ files' = Effect(Call.name, Admit(Call).arguments, files, EnvOk).files
    /\ Launch(Call.name, Effect(Call.name, Admit(Call).arguments, files, EnvOk).launched)
    /\ SameRequest
    /\ UNCHANGED <<messages, skip_permissions, locals, k, turns, gate, reported, compact_in>>

\* cli.py:863 in attended mode: the tool body shows its preview and waits
\* at its confirmation gate
DispatchGate ==
    /\ pc = "dispatch"
    /\ ~skip_permissions
    /\ Admit(Call).kind = "admitted"
    /\ Precheck(Call.name, Admit(Call).arguments, files) = ""
    /\ invoked' = Append(invoked, Call.id)
    /\ pending' = [name |-> Call.name, arguments |-> Admit(Call).arguments]
    /\ pc' = "confirm"
    /\ step' = "DispatchGate"
    /\ pre' = [files |-> files, started |-> started, fetched |-> fetched]
    /\ SameRequest /\ SameWorld
    /\ UNCHANGED <<messages, skip_permissions, locals, k, turns, gate, reported, compact_in>>

\* cli.py:863 with --skip-permissions: the tool body runs without a gate
DispatchRun(W) ==
    /\ pc = "dispatch"
    /\ skip_permissions
    /\ Admit(Call).kind = "admitted"
    /\ Precheck(Call.name, Admit(Call).arguments, files) = ""
    /\ invoked' = Append(invoked, Call.id)
    /\ \E env \in W.envs :
          LET res == Effect(Call.name, Admit(Call).arguments, files, env)
          IN  /\ files' = res.files
              /\ Launch(Call.name, res.launched)
              /\ Deliver(res.out)
    /\ step' = "DispatchRun"
    /\ pre' = [files |-> files, started |-> started, fetched |-> fetched]
    /\ UNCHANGED <<skip_permissions, locals, turns, gate, reported, compact_in>>

\* The user answers yes at the gate ("y" or the empty default) and the
\* tool performs its effect
GateAccept(W) ==
    /\ pc = "confirm"
    /\ \E user_input \in {"y", ""}, env \in W.envs :
          LET res == Effect(pending.name, pending.arguments, files, env)
          IN  /\ confirm(user_input)
              /\ gate' = [answer |-> user_input, text |-> ""]
              /\ files' = res.files
              /\ Launch(pending.name, res.launched)
              /\ Deliver(res.out)
    /\ step' = "GateAccept"
    /\ UNCHANGED <<skip_permissions, locals, turns, invoked, pre, reported, compact_in>>

\* The user answers no and enters the steering text, possibly empty: the
\* tool raises the rejection and performs nothing
GateReject(W) ==
    /\ pc = "confirm"
    /\ \E user_input \in {"n"}, text \in W.texts :
          /\ ~confirm(user_input)
          /\ gate' = [answer |-> user_input, text |-> text]
          /\ Deliver(Rejection(text))
    /\ step' = "GateReject"
    /\ SameWorld
    /\ UNCHANGED <<skip_permissions, locals, turns, invoked, pre, reported, compact_in>>

\* Ctrl-C or Ctrl-D at one of the gate's two prompts
GateInterrupt ==
    /\ pc = "confirm"
    /\ gate' = [answer |-> "^C", text |-> ""]
    /\ Deliver(Interrupt)
    /\ step' = "GateInterrupt"
    /\ SameWorld
    /\ UNCHANGED <<skip_permissions, locals, turns, invoked, pre, reported, compact_in>>

Next(W) ==
    \/ UserInput(W)
    \/ PromptInterrupt
    \/ AttemptStream(W)
    \/ AttemptTransient(W)
    \/ AttemptTerminal(W)
    \/ AttemptInterrupt(W)
    \/ DispatchRefuse
    \/ DispatchPrecheck
    \/ DispatchGate
    \/ DispatchRun(W)
    \/ GateAccept(W)
    \/ GateReject(W)
    \/ GateInterrupt

TurnNext == Next(TurnWorld)

\* The environment of the tools specification: one request that calls one
\* of the six tools, or a tool that does not exist
ToolsWorld ==
    [shapes |-> {UnknownCall, WriteCall, WriteOver, BashCall, ReadCall, EditCall,
                 WebFetchCall, WebSearchCall},
     tails |-> {"none"},
     extra |-> {},
     partial |-> {<<>>},
     errors |-> {"RateLimitError", "BadRequestError"},
     texts |-> {"", "no"},
     envs |-> {EnvOk, EnvFail, EnvError, EnvTimeout, EnvInterrupt},
     files |-> {FsEmpty, FsWithX},
     max_batch |-> ToolsMaxCalls,
     max_calls |-> ToolsMaxCalls,
     max_requests |-> ToolsMaxRequests,
     max_turns |-> ToolsMaxTurns]

ToolsNext == Next(ToolsWorld)

\* The environment of the retry specification: the provider requests no
\* tool, and its attempts fail with errors of several classes
RetryWorld ==
    [shapes |-> {},
     tails |-> {"none"},
     extra |-> {},
     partial |-> {<<>>, <<Chunk([content |-> "Hel"])>>},
     errors |-> {"RateLimitError", "APITimeoutError", "BadRequestError"},
     texts |-> {""},
     envs |-> {EnvOk},
     files |-> {FsEmpty},
     max_batch |-> 0,
     max_calls |-> 0,
     max_requests |-> MaxRequests,
     max_turns |-> MaxTurns]

RetryNext ==
    \/ UserInput(RetryWorld)
    \/ PromptInterrupt
    \/ AttemptStream(RetryWorld)
    \/ AttemptTransient(RetryWorld)
    \/ AttemptTerminal(RetryWorld)
    \/ AttemptInterrupt(RetryWorld)

SpecRetry == Init(RetryWorld) /\ [][RetryNext]_vars

SpecTools == Init(ToolsWorld) /\ [][ToolsNext]_vars

Spec == Init(TurnWorld) /\ [][TurnNext]_vars

\* The environment of the dispatcher specification: one request whose
\* batch draws on every way the dispatcher can refuse a call
DispatchWorld ==
    [shapes |-> {UnknownCall, WriteMalformed, WriteMissing, WriteExtra, WriteCall},
     tails |-> {"none"},
     extra |-> {},
     partial |-> {<<>>},
     errors |-> {"RateLimitError", "BadRequestError"},
     texts |-> {"", "no"},
     envs |-> {EnvOk, EnvError},
     files |-> {FsEmpty},
     max_batch |-> MaxToolCalls,
     max_calls |-> MaxToolCalls,
     max_requests |-> ToolsMaxRequests,
     max_turns |-> ToolsMaxTurns]

DispatchNext == Next(DispatchWorld)

SpecDispatch == Init(DispatchWorld) /\ [][DispatchNext]_vars

---------------------------------------------------------------------------
(* One tool call on its own: the dispatcher at the first request of a batch *)
(* of one, the call's arguments and the file system drawn from a world.     *)

\* The texts of at most n characters over an alphabet
Texts(alphabet, n) == UNION {[1..m -> alphabet] : m \in 0..n}

\* The file system with /t and the file /t/x of the given content
FsWith(content) == (TmpX :> File(content, TRUE)) @@ (Tmp :> Dir)

\* cli.py:665-843: the state when the dispatcher starts on the batch of the
\* first model request of the first turn, the stream having carried one call
\* of a shape of the world
InitCall(W) ==
    \E shape \in W.shapes :
        LET acc == Assemble(MkStream(<<shape>>, 1, "none")).acc
            asked == <<SystemMessage, [role |-> "user", content |-> "hi"]>>
        IN  /\ messages = AfterAssistant(asked, acc)
            /\ pc = "dispatch"
            /\ skip_permissions \in BOOLEAN
            /\ retries_left = RetriesInit
            /\ delay = DelayInit
            /\ locals = acc
            /\ k = 1
            /\ pending = NoPending
            /\ files \in W.files
            /\ started = 0
            /\ fetched = 0
            /\ tries = <<"ok">>
            /\ waits = <<>>
            /\ issued = asked
            /\ requests = 1
            /\ turns = 1
            /\ invoked = <<>>
            /\ step = "AttemptStream"
            /\ gate = NoGate
            /\ pre = [files |-> files, started |-> 0, fetched |-> 0]
            /\ reported = ""
            /\ compact_in = <<>>

\* The steps of a call whose arguments the dispatcher admits
CallNext(W) ==
    \/ DispatchPrecheck
    \/ DispatchGate
    \/ DispatchRun(W)
    \/ GateAccept(W)
    \/ GateReject(W)
    \/ GateInterrupt

\* A call of Edit on /t/x
EditShape(old_string, new_string) ==
    [name |-> <<"Edit">>,
     arguments |-> Object(<<Member("file_path", JStr(TmpX)),
                            Member("old_string", JStr(old_string)),
                            Member("new_string", JStr(new_string))>>)]

\* The environment of the File Editor specification: /t/x holds any text
\* over two characters, old_string is any such text, the empty one included
EditWorld ==
    [shapes |-> {EditShape(o, n) : o \in Texts({"a", "b"}, MaxPattern), n \in {<<>>, <<"c">>}},
     tails |-> {"none"},
     extra |-> {},
     partial |-> {<<>>},
     errors |-> {},
     texts |-> {""},
     envs |-> {EnvOk},
     files |-> {FsWith(content) : content \in Texts({"a", "b"}, MaxText)},
     max_batch |-> 1,
     max_calls |-> 1,
     max_requests |-> 1,
     max_turns |-> 1]

EditNext == CallNext(EditWorld)

SpecEdit == InitCall(EditWorld) /\ [][EditNext]_vars

\* A call of Read on a path, each optional argument given or (0) left out
ReadShape(file_path, offset, limit, chars_limit) ==
    [name |-> <<"Read">>,
     arguments |-> Object(<<Member("file_path", JStr(file_path))>>
                          \o (IF offset = 0 THEN <<>> ELSE <<Member("offset", JInt(offset))>>)
                          \o (IF limit = 0 THEN <<>> ELSE <<Member("limit", JInt(limit))>>)
                          \o (IF chars_limit = 0 THEN <<>>
                              ELSE <<Member("chars_limit", JInt(chars_limit))>>))]

\* The environment of the File Reader specification: /t/x holds any text of
\* letters and line ends; the call reads it, or the directory /t
ReadWorld ==
    [shapes |-> {ReadShape(TmpX, o, l, c) : o \in 0..2, l \in 0..2, c \in 0..2}
                \cup {ReadShape(Tmp, 0, 0, 0)},
     tails |-> {"none"},
     extra |-> {},
     partial |-> {<<>>},
     errors |-> {},
     texts |-> {""},
     envs |-> {EnvOk},
     files |-> {FsWith(content) : content \in Texts({"a", "\n"}, MaxText)},
     max_batch |-> 1,
     max_calls |-> 1,
     max_requests |-> 1,
     max_turns |-> 1]

ReadNext == CallNext(ReadWorld)

SpecRead == InitCall(ReadWorld) /\ [][ReadNext]_vars

\* A call of Write
WriteShape(file_path, overwrite, content) ==
    [name |-> <<"Write">>,
     arguments |-> Object(<<Member("file_path", JStr(file_path)),
                            Member("overwrite", JBool(overwrite)),
                            Member("content", JStr(content))>>)]

\* The file systems of the File Writer specification: the directory /t is
\* missing, or there and writable or not; in it x is missing, a file
\* (writable or not) or a directory (writable or not)
WriteFiles ==
    {<<>>}
    \cup {(Tmp :> [Dir EXCEPT !.w = pw]) : pw \in BOOLEAN}
    \cup {(TmpX :> node) @@ (Tmp :> [Dir EXCEPT !.w = pw]) :
              pw \in BOOLEAN,
              node \in {File(content, w) : content \in Texts({"a", "b"}, MaxPattern), w \in BOOLEAN}
                        \cup {[Dir EXCEPT !.w = w] : w \in BOOLEAN}}

\* The environment of the File Writer specification: the call writes /t/x
\* or the relative path x, with either value of overwrite
WriteWorld ==
    [shapes |-> {WriteShape(path, o, content) :
                    path \in {TmpX, <<"x">>}, o \in BOOLEAN,
                    content \in Texts({"a", "b"}, MaxPattern)},
     tails |-> {"none"},
     extra |-> {},
     partial |-> {<<>>},
     errors |-> {},
     texts |-> {"", "no"},
     envs |-> {EnvOk},
     files |-> WriteFiles,
     max_batch |-> 1,
     max_calls |-> 1,
     max_requests |-> 1,
     max_turns |-> 1]

WriteNext == CallNext(WriteWorld)

SpecWrite == InitCall(WriteWorld) /\ [][WriteNext]_vars

---------------------------------------------------------------------------
(* The stream loop chunk by chunk (cli.py:705-841).  In SpecStream locals   *)
(* holds, besides the locals of cli.py:696-703, the iterator of the for     *)
(* loop of cli.py:705: stream is what the provider has still to send, seen  *)
(* the chunks the loop has taken from it.                                   *)

\* The chunks a provider may send: tool-call fragments that open a call
\* (with an identifier) or continue one, alone or two in one delta; hidden
\* reasoning under either attribute name, empty slices included; visible
\* text; finish signals with and without a usage snapshot; usage snapshots
\* on chunks without choices
ChunkAlphabet ==
    {Chunk([tool_calls |-> <<[id |-> 1, name |-> "N"]>>]),
     Chunk([tool_calls |-> <<[id |-> 2]>>]),
     Chunk([tool_calls |-> <<[name |-> "o"]>>]),
     Chunk([tool_calls |-> <<[arguments |-> <<LBrace>>]>>]),
     Chunk([tool_calls |-> <<[arguments |-> <<RBrace>>],
                             [id |-> 3, name |-> "M", arguments |-> <<LBrace>>]>>]),
     Chunk([reasoning_content |-> "r"]),
     Chunk([reasoning |-> ""]),
     Chunk([reasoning_details |-> <<"d">>]),
     Chunk([reasoning_details |-> <<>>]),
     Chunk([content |-> "Hello"]),
     [choices |-> <<[delta |-> <<>>, finish_reason |-> "stop"]>>],
     [choices |-> <<[delta |-> <<>>, finish_reason |-> "tool_calls"]>>,
      usage |-> [total_tokens |-> 102401]],
     [choices |-> <<[delta |-> <<>>, finish_reason |-> "length"]>>,
      usage |-> [total_tokens |-> 102400]],
     [choices |-> <<>>, usage |-> [total_tokens |-> 102401]],
     [choices |-> <<>>, usage |-> [total_tokens |-> 7]]}

\* The streams of at most MaxChunks chunks
ChunkStreams == UNION {[1..n -> ChunkAlphabet] : n \in 0..MaxChunks}

\* cli.py:688-703: the request is open and the locals are initialised
InitStream ==
    /\ messages = <<SystemMessage, [role |-> "user", content |-> "hi"]>>
    /\ pc = "stream"
    /\ skip_permissions = FALSE
    /\ retries_left = RetriesInit
    /\ delay = DelayInit
    /\ \E chunks \in ChunkStreams :
          locals = InitialAcc @@ [stream |-> chunks, seen |-> <<>>]
    /\ k = 1
    /\ pending = NoPending
    /\ files = (Tmp :> Dir)
    /\ started = 0
    /\ fetched = 0
    /\ tries = <<>>
    /\ waits = <<>>
    /\ issued = messages
    /\ requests = 1
    /\ turns = 1
    /\ invoked = <<>>
    /\ step = "UserInput"
    /\ gate = NoGate
    /\ pre = [files |-> files, started |-> 0, fetched |-> 0]
    /\ reported = ""
    /\ compact_in = <<>>

\* cli.py:705-769: one iteration of the for loop
StreamChunk ==
    /\ pc = "stream"
    /\ locals.stream # <<>>
    /\ LET st == AssembleChunk([acc |-> locals, raised |-> FALSE], Head(locals.stream))
       IN  /\ ~st.raised
           /\ locals' = [st.acc EXCEPT !.stream = Tail(@),
                                        !.seen = Append(@, Head(locals.stream))]
    /\ step' = "StreamChunk"
    /\ SameRequest /\ SameWorld
    /\ UNCHANGED <<messages, pc, skip_permissions, k, pending, turns, invoked, gate, pre,
                   reported, compact_in>>

\* cli.py:757, 763: tool_calls[-1] on the empty list raises IndexError,
\* which ends the program
StreamRaise ==
    /\ pc = "stream"
    /\ locals.stream # <<>>
    /\ LET st == AssembleChunk([acc |-> locals, raised |-> FALSE], Head(locals.stream))
       IN  /\ st.raised
           /\ locals' = st.acc
    /\ tries' = Append(tries, "IndexError")
    /\ pc' = "crashed"
    /\ step' = "StreamRaise"
    /\ SameWorld
    /\ UNCHANGED <<messages, skip_permissions, retries_left, delay, k, pending, waits, issued,
                   requests, turns, invoked, gate, pre, reported, compact_in>>

\* A loop that goes to the dispatcher only when the finish reason says so
StreamEnd_by_reason ==
    /\ pc = "stream"
    /\ locals.stream = <<>>
    /\ tries' = Append(tries, "ok")
    /\ messages' = AfterAssistant(messages, locals)
    /\ compact_in' = IF OverBudget(locals)
                     THEN Append(messages, BuildMessage(locals))
                     ELSE compact_in
    /\ pc' = IF /\ locals.tool_calls # <<>>
                /\ "finish_reason" \in DOMAIN locals
                /\ locals.finish_reason = "tool_calls"
             THEN "dispatch" ELSE "prompt"
    /\ k' = 1
    /\ invoked' = <<>>
    /\ step' = "StreamEnd"
    /\ SameWorld
    /\ UNCHANGED <<skip_permissions, retries_left, delay, locals, pending, waits, issued,
                   requests, turns, gate, pre, reported>>

\* cli.py:797-841: the stream is exhausted; the assistant message is
\* appended, the usage checked, and control goes to the dispatcher or back
\* to the prompt
StreamEnd ==
    /\ pc = "stream"
    /\ locals.stream = <<>>
    /\ tries' = Append(tries, "ok")
    /\ messages' = AfterAssistant(messages, locals)
    /\ compact_in' = IF OverBudget(locals)
                     THEN Append(messages, BuildMessage(locals))
                     ELSE compact_in
    /\ pc' = IF locals.tool_calls = <<>> THEN "prompt" ELSE "dispatch"
    /\ k' = 1
    /\ invoked' = <<>>
    /\ step' = "StreamEnd"
    /\ SameWorld
    /\ UNCHANGED <<skip_permissions, retries_left, delay, locals, pending, waits, issued,
                   requests, turns, gate, pre, reported>>

\* The stream loop, and the dispatcher on the requests it assembled (none
\* of which names a tool)
StreamNext == StreamChunk \/ StreamRaise \/ StreamEnd \/ DispatchRefuse

SpecStream == InitStream /\ [][StreamNext]_vars

---------------------------------------------------------------------------
(* The retry loop around the stream loop (cli.py:686-795).  In SpecRestart  *)
(* locals holds, besides the locals of cli.py:696-703 and the iterator,     *)
(* the history field failed: the chunks the last failed attempt had taken.  *)

\* The streams of SpecRestart: at most RestartChunks chunks, each opening a
\* call, continuing one, or carrying visible or hidden text
RestartStreams ==
    UNION {[1..n -> {Chunk([tool_calls |-> <<[id |-> 1, name |-> "N"]>>]),
                     Chunk([tool_calls |-> <<[arguments |-> <<LBrace>>]>>]),
                     Chunk([content |-> "Hello"]),
                     Chunk([reasoning_content |-> "r"])}] : n \in 0..RestartChunks}

\* cli.py:683-686: the retry loop is entered for the first attempt
InitRestart ==
    /\ messages = <<SystemMessage, [role |-> "user", content |-> "hi"]>>
    /\ pc = "create"
    /\ skip_permissions = FALSE
    /\ retries_left = RetriesInit
    /\ delay = DelayInit
    /\ locals = InitialAcc @@ [stream |-> <<>>, seen |-> <<>>, failed |-> <<>>]
    /\ k = 1
    /\ pending = NoPending
    /\ files = (Tmp :> Dir)
    /\ started = 0
    /\ fetched = 0
    /\ tries = <<>>
    /\ waits = <<>>
    /\ issued = messages
    /\ requests = 1
    /\ turns = 1
    /\ invoked = <<>>
    /\ step = "UserInput"
    /\ gate = NoGate
    /\ pre = [files |-> files, started |-> 0, fetched |-> 0]
    /\ reported = ""
    /\ compact_in = <<>>

\* An attempt that goes on from what the attempt before had built
RestartOpen_keep ==
    /\ pc = "create"
    /\ \E chunks \in RestartStreams :
          locals' = [locals EXCEPT !.stream = chunks, !.seen = <<>>]
    /\ pc' = "stream"
    /\ step' = "RestartOpen"
    /\ SameRequest /\ SameWorld
    /\ UNCHANGED <<messages, skip_permissions, k, pending, turns, invoked, gate, pre,
                   reported, compact_in>>

\* cli.py:688-703: create() returns a stream and the locals of the attempt
\* are initialised
RestartOpen ==
    /\ pc = "create"
    /\ \E chunks \in RestartStreams :
          locals' = InitialAcc @@ [stream |-> chunks, seen |-> <<>>, failed |-> locals.failed]
    /\ pc' = "stream"
    /\ step' = "RestartOpen"
    /\ SameRequest /\ SameWorld
    /\ UNCHANGED <<messages, skip_permissions, k, pending, turns, invoked, gate, pre,
                   reported, compact_in>>

\* cli.py:773-791: create() or the stream raises a transient error; what
\* the attempt had built stays in the locals.  With retries left the loop
\* sleeps and tries again; without, the error goes to the turn loop
\* (792-795), which prints it and ends the turn.
RestartTransient ==
    /\ pc \in {"create", "stream"}
    /\ \E e \in {"RateLimitError", "APITimeoutError"} :
          /\ IsTransient(e)
          /\ tries' = Append(tries, e)
          /\ retries_left' = retries_left - 1
          /\ IF Exhausted(retries_left)
             THEN /\ reported' = e
                  /\ pc' = "prompt"
                  /\ UNCHANGED <<delay, waits>>
             ELSE /\ waits' = Append(waits, delay)
                  /\ delay' = NextDelay(delay)
                  /\ pc' = "create"
                  /\ UNCHANGED reported
    /\ locals' = IF pc = "stream" THEN [locals EXCEPT !.failed = locals.seen] ELSE locals
    /\ step' = "RestartTransient"
    /\ SameWorld
    /\ UNCHANGED <<messages, skip_permissions, k, pending, issued, requests, turns,
                   invoked, gate, pre, compact_in>>

RestartNext ==
    \/ RestartOpen
    \/ RestartTransient
    \/ StreamChunk
    \/ StreamRaise
    \/ StreamEnd
    \/ DispatchRefuse

SpecRestart == InitRestart /\ [][RestartNext]_vars

---------------------------------------------------------------------------
(* Command Executor step by step (cli.py:132-182): the main thread, the     *)
(* reader thread and the child process.  While the tool body runs, pending  *)
(* holds its locals: main is the main thread's position, thread the reader  *)
(* thread's state, child the process's state, todo the lines the child has  *)
(* still to write, pipe the lines written and not yet read, output_lines    *)
(* the list the reader thread appends to, rc the exit code.                 *)

\* A call of Bash in /t, with the default timeout or its own
BashShape(timeout) ==
    [name |-> <<"Bash">>,
     arguments |-> Object(<<Member("command", JStr(<<"l", "s">>)), Member("cwd", JStr(Tmp))>>
                          \o (IF timeout = 0 THEN <<>>
                              ELSE <<Member("timeout", JInt(timeout))>>))]

\* What a child process may write: at most MaxLines lines
Scripts == UNION {[1..n -> {<<"o", "\n">>, <<"e", "\n">>}] : n \in 0..MaxLines}

BashWorld ==
    [shapes |-> {BashShape(0), BashShape(1)},
     tails |-> {"none"},
     extra |-> {},
     partial |-> {<<>>},
     errors |-> {},
     texts |-> {""},
     envs |-> {EnvOk},
     files |-> {FsEmpty},
     max_batch |-> 1,
     max_calls |-> 1,
     max_requests |-> 1,
     max_turns |-> 1]

\* cli.py:132: the locals of the tool body when it enters the try
BashLocals(arguments) ==
    [name |-> "Bash", arguments |-> arguments, main |-> "popen", thread |-> "unstarted",
     child |-> "none", todo |-> <<>>, pipe |-> <<>>, output_lines |-> <<>>, rc |-> 0]

\* A step inside the tool body: only its locals change
BashInternal(locals_after) ==
    /\ pc = "bash"
    /\ pending' = locals_after
    /\ SameRequest
    /\ UNCHANGED <<messages, pc, skip_permissions, locals, k, files, fetched, turns,
                   invoked, gate, pre, reported, compact_in>>

\* cli.py:863, 108-131 with --skip-permissions: the tool body passes its
\* checks and reaches the try
BashEnter ==
    /\ pc = "dispatch"
    /\ skip_permissions
    /\ Admit(Call).kind = "admitted"
    /\ Call.name = "Bash"
    /\ Precheck(Call.name, Admit(Call).arguments, files) = ""
    /\ invoked' = Append(invoked, Call.id)
    /\ pending' = BashLocals(Admit(Call).arguments)
    /\ pc' = "bash"
    /\ step' = "BashEnter"
    /\ pre' = [files |-> files, started |-> started, fetched |-> fetched]
    /\ SameRequest /\ SameWorld
    /\ UNCHANGED <<messages, skip_permissions, locals, k, turns, gate, reported, compact_in>>

\* cli.py:123-131: the user answers yes at the gate of Bash
BashAccept ==
    /\ pc = "confirm"
    /\ pending.name = "Bash"
    /\ \E user_input \in {"y", ""} :
          /\ confirm(user_input)
          /\ gate' = [answer |-> user_input, text |-> ""]
    /\ pending' = BashLocals(pending.arguments)
    /\ pc' = "bash"
    /\ step' = "BashAccept"
    /\ SameRequest /\ SameWorld
    /\ UNCHANGED <<messages, skip_permissions, locals, k, turns, invoked, pre, reported,
                   compact_in>>

\* cli.py:133-144: Popen starts the child, which has a script to write and
\* an exit code to end with
BashPopen ==
    /\ pc = "bash"
    /\ pending.main = "popen"
    /\ \E script \in Scripts, rc \in {0, 1} :
          BashInternal([pending EXCEPT !.main = "start", !.child = "running",
                                       !.todo = script, !.rc = rc])
    /\ started' = started + 1
    /\ step' = "BashPopen"

\* cli.py:151-152: the reader thread is started
BashStartReader ==
    /\ pc = "bash"
    /\ pending.main = "start"
    /\ BashInternal([pending EXCEPT !.main = "wait", !.thread = "running"])
    /\ UNCHANGED started
    /\ step' = "BashStartReader"

\* The child writes the next line of its script to its stdout
ChildWrite ==
    /\ pc = "bash"
    /\ pending.child = "running"
    /\ pending.todo # <<>>
    /\ BashInternal([pending EXCEPT !.pipe = Append(@, Head(pending.todo)),
                                    !.todo = Tail(@)])
    /\ UNCHANGED started
    /\ step' = "ChildWrite"

\* The child ends, its script written
ChildExit ==
    /\ pc = "bash"
    /\ pending.child = "running"
    /\ pending.todo = <<>>
    /\ BashInternal([pending EXCEPT !.child = "exited"])
    /\ UNCHANGED started
    /\ step' = "ChildExit"

\* cli.py:147-149: the reader thread reads a line and appends it
ReaderRead ==
    /\ pc = "bash"
    /\ pending.thread = "running"
    /\ pending.pipe # <<>>
    /\ BashInternal([pending EXCEPT !.output_lines = Append(@, Head(pending.pipe)),
                                    !.pipe = Tail(@)])
    /\ UNCHANGED started
    /\ step' = "ReaderRead"

\* cli.py:147: the stream is at its end, the pipe empty and its write end
\* closed by every process that held it - the child gone, and so is any
\* descendant that inherited the pipe (the field heir, where there is one):
\* the for loop and the thread end
ReaderEof ==
    /\ pc = "bash"
    /\ pending.thread = "running"
    /\ pending.pipe = <<>>
    /\ pending.child \in {"exited", "killed"}
    /\ "heir" \in DOMAIN pending => pending.heir # "holding"
    /\ BashInternal([pending EXCEPT !.thread = "done"])
    /\ UNCHANGED started
    /\ step' = "ReaderEof"

\* cli.py:154: wait returns, the child having ended within the timeout
BashWaitReturns ==
    /\ pc = "bash"
    /\ pending.main = "wait"
    /\ pending.child = "exited"
    /\ BashInternal([pending EXCEPT !.main = "join"])
    /\ UNCHANGED started
    /\ step' = "BashWaitReturns"

\* cli.py:154, 156: the timeout elapses with the child running, and wait
\* raises TimeoutExpired
BashTimeoutExpired ==
    /\ pc = "bash"
    /\ pending.main = "wait"
    /\ pending.child = "running"
    /\ BashInternal([pending EXCEPT !.main = "kill"])
    /\ UNCHANGED started
    /\ step' = "BashTimeoutExpired"

\* cli.py:157: process.kill(), which does nothing to a child that has ended
\* in the meantime
BashKill ==
    /\ pc = "bash"
    /\ pending.main = "kill"
    /\ BashInternal([pending EXCEPT !.main = "join_killed",
                                    !.child = IF @ = "running" THEN "killed" ELSE @])
    /\ UNCHANGED started
    /\ step' = "BashKill"

\* A join that does not wait for the thread to end
BashJoin_nowait ==
    /\ pc = "bash"
    /\ pending.main \in {"join", "join_killed"}
    /\ BashInternal([pending EXCEPT !.main = IF @ = "join" THEN "read" ELSE "raise"])
    /\ UNCHANGED started
    /\ step' = "BashJoin"

\* cli.py:155, 158: thread.join() returns once the reader thread has ended
BashJoin ==
    /\ pc = "bash"
    /\ pending.main \in {"join", "join_killed"}
    /\ pending.thread = "done"
    /\ BashInternal([pending EXCEPT !.main = IF @ = "join" THEN "read" ELSE "raise"])
    /\ UNCHANGED started
    /\ step' = "BashJoin"

\* cli.py:162-182: the main thread reads output_lines and returns the
\* payload
BashReturn ==
    /\ pc = "bash"
    /\ pending.main = "read"
    /\ Deliver(Returned(BashPayload(Join(pending.output_lines), pending.rc)))
    /\ step' = "BashReturn"
    /\ SameWorld
    /\ UNCHANGED <<skip_permissions, locals, turns, invoked, gate, pre, reported, compact_in>>

\* cli.py:160: the timeout's ToolError
BashRaise ==
    /\ pc = "bash"
    /\ pending.main = "raise"
    /\ Deliver(ToolError("Timed out after "
                         \o Str(Digits(Arg(pending.arguments, "timeout", JInt(60)).int))
                         \o " second(s)."))
    /\ step' = "BashRaise"
    /\ SameWorld
    /\ UNCHANGED <<skip_permissions, locals, turns, invoked, gate, pre, reported, compact_in>>

\* Ctrl-C while the main thread waits for the child: nothing in the tool
\* body catches it
BashInterrupt ==
    /\ pc = "bash"
    /\ pending.main = "wait"
    /\ Deliver(Interrupt)
    /\ step' = "BashInterrupt"
    /\ SameWorld
    /\ UNCHANGED <<skip_permissions, locals, turns, invoked, gate, pre, reported, compact_in>>

BashNext ==
    \/ DispatchGate
    \/ GateReject(BashWorld)
    \/ GateInterrupt
    \/ BashEnter
    \/ BashAccept
    \/ BashPopen
    \/ BashStartReader
    \/ ChildWrite
    \/ ChildExit
    \/ ReaderRead
    \/ ReaderEof
    \/ BashWaitReturns
    \/ BashTimeoutExpired
    \/ BashKill
    \/ BashJoin
    \/ BashReturn
    \/ BashRaise
    \/ BashInterrupt

SpecBash == InitCall(BashWorld) /\ [][BashNext]_vars

---------------------------------------------------------------------------
(* Command Executor with a command that leaves a descendant behind, as      *)
(* "sleep 100 &" does: the descendant inherits the write end of the pipe    *)
(* (cli.py:137-138) and outlives the child.  heir is "none", "holding" or   *)
(* "gone".                                                                  *)

\* cli.py:133-144: Popen starts the child, which may start a descendant
\* that holds the pipe
HeirPopen ==
    /\ pc = "bash"
    /\ pending.main = "popen"
    /\ \E script \in Scripts, rc \in {0, 1}, heir \in {"none", "holding"} :
          BashInternal([main |-> "start", child |-> "running", todo |-> script,
                        rc |-> rc, heir |-> heir] @@ pending)
    /\ started' = started + 1
    /\ step' = "HeirPopen"

\* The descendant ends, or closes its stdout and stderr
HeirExit ==
    /\ pc = "bash"
    /\ pending.main # "popen"
    /\ pending.heir = "holding"
    /\ BashInternal([pending EXCEPT !.heir = "gone"])
    /\ UNCHANGED started
    /\ step' = "HeirExit"

\* The steps of the tool body's two threads
BashThreads ==
    \/ BashStartReader
    \/ ReaderRead
    \/ ReaderEof
    \/ BashWaitReturns
    \/ BashTimeoutExpired
    \/ BashKill
    \/ BashJoin
    \/ BashReturn
    \/ BashRaise

HeirNext ==
    \/ DispatchGate
    \/ GateReject(BashWorld)
    \/ GateInterrupt
    \/ BashEnter
    \/ BashAccept
    \/ HeirPopen
    \/ HeirExit
    \/ ChildWrite
    \/ ChildExit
    \/ BashThreads
    \/ BashInterrupt

SpecBashHeir == InitCall(BashWorld) /\ [][HeirNext]_vars

---------------------------------------------------------------------------
(* The compactor on its own: compact applied to a conversation.             *)

\* The messages a conversation given to compact is made of
CompactAlphabet ==
    {[role |-> "user", content |-> "hi"],
     [role |-> "assistant", content |-> "Hello", tool_calls |-> <<>>],
     [role |-> "assistant", content |-> "",
      tool_calls |-> <<[id |-> 1, type |-> "function",
                        function |-> [name |-> "Write", arguments |-> <<LBrace, RBrace>>]]>>],
     [role |-> "tool", tool_call_id |-> 1, content |-> "{\"success\": true}"],
     [role |-> "tool", tool_call_id |-> 1, content |-> Placeholder]}

\* The conversations of at most MaxLen messages that start with the system
\* message
Conversations ==
    {<<SystemMessage>> \o rest : rest \in UNION {[1..n -> CompactAlphabet] : n \in 0..(MaxLen - 1)}}

InitCompact ==
    /\ messages \in Conversations
    /\ pc = "compact"
    /\ skip_permissions = FALSE
    /\ retries_left = RetriesInit
    /\ delay = DelayInit
    /\ locals = InitialAcc
    /\ k = 1
    /\ pending = NoPending
    /\ files = (Tmp :> Dir)
    /\ started = 0
    /\ fetched = 0
    /\ tries = <<>>
    /\ waits = <<>>
    /\ issued = <<SystemMessage>>
    /\ requests = 0
    /\ turns = 0
    /\ invoked = <<>>
    /\ step = "Init"
    /\ gate = NoGate
    /\ pre = [files |-> files, started |-> 0, fetched |-> 0]
    /\ reported = ""
    /\ compact_in = <<>>

\* cli.py:836: messages = compact(messages)
Compact ==
    /\ pc = "compact"
    /\ messages' = compact(messages)
    /\ compact_in' = messages
    /\ pc' = "compacted"
    /\ step' = "Compact"
    /\ SameRequest /\ SameWorld /\ SameBatch
    /\ UNCHANGED <<skip_permissions, turns, reported>>

SpecCompact == InitCompact /\ [][Compact]_vars

\* cli.py:836 once more, with no message appended in between: the turn
\* loop compacts the conversation it has just compacted
CompactAgain ==
    /\ pc = "compacted"
    /\ messages' = compact(messages)
    /\ compact_in' = messages
    /\ pc' = "recompacted"
    /\ step' = "CompactAgain"
    /\ SameRequest /\ SameWorld /\ SameBatch
    /\ UNCHANGED <<skip_permissions, turns, reported>>

CompactTwiceNext == Compact \/ CompactAgain

SpecCompactTwice == InitCompact /\ [][CompactTwiceNext]_vars

---------------------------------------------------------------------------
(* Properties of the compactor, checked under SpecCompact.                  *)

\* The 1-based positions of the span compact rewrites in a conversation of
\* length n > 3: the 0-based indices 1 .. n-1-floor((n-1)/2)
MiddleSpan(n) == 2..(n - ((n - 1) \div 2))

\* C8: compact preserves length, order and both ends.  For a conversation
\* of length N > 3 the result has length N, its first element is the
\* input's and its last floor((N-1)/2) elements are the input's at the same
\* positions; for N <= 3 the result is the input.
C8_CompactPreserves ==
    pc = "compacted" =>
        LET n == Len(compact_in)
        IN  IF n > 3
            THEN /\ Len(messages) = n
                 /\ messages[1] = compact_in[1]
                 /\ \A i \in (n - ((n - 1) \div 2) + 1)..n : messages[i] = compact_in[i]
            ELSE messages = compact_in

\* A conversation of more than three messages has been compacted, and the
\* compaction rewrote something while the kept suffix held a tool message
C8_Witness ==
    /\ pc = "compacted"
    /\ Len(compact_in) > 3
    /\ messages # compact_in
    /\ compact_in[Len(compact_in)].role = "tool"
    /\ compact_in[Len(compact_in)].content # Placeholder

\* C9: for a conversation of length N > 3, compact rewrites exactly the
\* tool messages at the indices 1 .. N-1-floor((N-1)/2): each keeps its role
\* and call identifier and gets the placeholder as content; every other
\* message of the span, and every message outside it, is left as it was.
C9_CompactRewrites ==
    (pc = "compacted" /\ Len(compact_in) > 3) =>
        /\ Len(messages) = Len(compact_in)
        /\ \A i \in 1..Len(compact_in) :
              IF i \in MiddleSpan(Len(compact_in)) /\ compact_in[i].role = "tool"
              THEN messages[i] = [role |-> "tool",
                                  tool_call_id |-> compact_in[i].tool_call_id,
                                  content |-> Placeholder]
              ELSE messages[i] = compact_in[i]

\* A compaction that rewrote the tool message at the last index of the span
\* and left a non-tool message of the span untouched
C9_Witness ==
    /\ pc = "compacted"
    /\ Len(compact_in) > 3
    /\ LET i == Len(compact_in) - ((Len(compact_in) - 1) \div 2)
       IN  /\ compact_in[i].role = "tool"
           /\ compact_in[i].content # Placeholder
           /\ messages[i].content = Placeholder
    /\ compact_in[2].role = "assistant"

---------------------------------------------------------------------------
(* Properties of the dispatcher and the turn loop.                          *)

\* The elements of a sequence
Range(s) == {s[i] : i \in 1..Len(s)}

\* The position of the last assistant message of a conversation, 0 if none
LastAssistant(ms) ==
    LET at == {i \in 1..Len(ms) : ms[i].role = "assistant"}
    IN  IF at = {} THEN 0 ELSE CHOOSE i \in at : \A j \in at : j <= i

\* The conversation ends with the assistant message of the current batch,
\* followed by one tool message for each of its first n requests, in order
AnsweredUpTo(n) ==
    LET a == LastAssistant(messages)
    IN  /\ a > 0
        /\ Len(messages[a].tool_calls) = Len(locals.tool_calls)
        /\ \A j \in 1..Len(locals.tool_calls) :
               messages[a].tool_calls[j].id = locals.tool_calls[j].id
        /\ Len(messages) = a + n
        /\ \A j \in 1..n :
               /\ messages[a + j].role = "tool"
               /\ messages[a + j].tool_call_id = locals.tool_calls[j].id

\* The steps that end the dispatch of a request without an interrupt
DeliverSteps == {"DispatchRefuse", "DispatchPrecheck", "DispatchRun", "GateAccept", "GateReject"}

\* C1: when no interrupt occurs, dispatching the requests of a completed
\* assistant message appends exactly one tool message per request, carrying
\* the identifier of the request it answers, in request order, with nothing
\* else appended between them: while the k-th request is dispatched the
\* conversation ends with the assistant message and the tool messages of
\* requests 1..k-1, and when the batch is done with those of all requests.
C1_OneToolMessagePerRequest ==
    /\ pc \in {"dispatch", "confirm"} => (k <= Len(locals.tool_calls) /\ AnsweredUpTo(k - 1))
    /\ (pc = "request" /\ step \in DeliverSteps) => AnsweredUpTo(Len(locals.tool_calls))

\* A batch of two requests is done: the first tool wrote its file, the
\* second request named no tool of the toolset
C1_Witness ==
    /\ pc = "request"
    /\ step \in DeliverSteps
    /\ Len(locals.tool_calls) = 2
    /\ messages[Len(messages) - 1].content = "{\"success\": true}"
    /\ messages[Len(messages)].content = "{\"error\": \"Unknown tool.\"}"

\* The names of the toolset (cli.py:642-657)
ToolNames == {"Bash", "Read", "Write", "Edit", "WebFetch", "WebSearch"}

\* The error payloads of a schema violation (cli.py:855-858)
RefusalPayloads ==
    {"{\"error\": \"Invalid arguments: value is not of type 'object'\"}",
     "{\"error\": \"Invalid arguments: a required property is missing\"}",
     "{\"error\": \"Invalid arguments: Additional properties are not allowed\"}",
     "{\"error\": \"Invalid arguments: a property does not conform to its schema\"}"}

\* The error payloads of the File Writer's body: the ToolErrors of its
\* checks and of its gate, and the repr of the OSError its open() raises
BodyErrorPayloads ==
    {"{\"error\": \"file_path must be an absolute path.\"}",
     "{\"error\": \"dirname(file_path) does not exist.\"}",
     "{\"error\": \"dirname(file_path) is not writable.\"}",
     "{\"error\": \"file_path already exists and overwrite is false.\"}",
     "{\"error\": \"file_path already exists and is not a regular file.\"}",
     "{\"error\": \"file_path already exists and is not writable.\"}",
     "{\"error\": \"User rejected.\"}",
     "{\"error\": \"User rejected with message: no\"}",
     "{\"error\": \"OSError('open failed')\"}"}

\* The step appends exactly one message, the tool message of the current
\* request
AppendsToolMessage ==
    /\ Len(messages') = Len(messages) + 1
    /\ SubSeq(messages', 1, Len(messages)) = messages
    /\ messages'[Len(messages')].role = "tool"
    /\ messages'[Len(messages')].tool_call_id = Call.id

\* The step goes on with the next request of the batch, or after the last
\* one issues the next model request of the conversation
GoesOn ==
    IF k < Len(locals.tool_calls)
    THEN pc' = "dispatch" /\ k' = k + 1 /\ requests' = requests
    ELSE /\ pc' = "request"
         /\ requests' = requests + 1
         /\ issued' = messages'
         /\ retries_left' = 5
         /\ tries' = <<>>

\* Whether the argument text of the call parses, and whether the parsed
\* value has every required key of the tool and no key the tool does not
\* declare
Parses(call) == JsonLoads(call.arguments).ok
KeysValid(call) ==
    /\ JsonLoads(call.arguments).object
    /\ tools[call.name].required \subseteq DOMAIN JsonLoads(call.arguments).value
    /\ DOMAIN JsonLoads(call.arguments).value \subseteq DOMAIN tools[call.name].properties

\* C2: no tool failure aborts the turn.  Every step that ends the dispatch
\* of a request without an interrupt appends the tool message of that
\* request - the payload {"error": <message>} for a ToolError of name
\* resolution, argument parsing, schema validation or the tool body, the
\* payload {"error": <repr>} for another exception - and goes on with the
\* next request of the batch, or after the last with the next model request.
C2_NoFailureAborts ==
    [][(pc \in {"dispatch", "confirm"} /\ pc' # "confirm" /\ step' # "GateInterrupt") =>
          /\ AppendsToolMessage
          /\ GoesOn
          /\ LET content == messages'[Len(messages')].content
             IN  IF pc = "dispatch" /\ Call.name \notin ToolNames
                 THEN content = "{\"error\": \"Unknown tool.\"}"
                 ELSE IF pc = "dispatch" /\ ~Parses(Call)
                 THEN content = "{\"error\": \"Invalid arguments: JSONDecodeError\"}"
                 ELSE IF pc = "dispatch" /\ ~KeysValid(Call)
                 THEN content \in RefusalPayloads
                 ELSE IF files' = files
                 THEN content \in BodyErrorPayloads
                 ELSE content = "{\"success\": true}"]_vars

\* A batch of two requests is done and the next model request is issued:
\* the first request failed with the OSError of open(), the second with
\* the ToolError of the argument parser
C2_Witness ==
    /\ pc = "request"
    /\ step = "DispatchRefuse"
    /\ requests = 2
    /\ Len(locals.tool_calls) = 2
    /\ messages[Len(messages) - 1].content = "{\"error\": \"OSError('open failed')\"}"
    /\ messages[Len(messages)].content = "{\"error\": \"Invalid arguments: JSONDecodeError\"}"

\* C3: the dispatcher enters a tool body only after the name resolves, the
\* argument text parses and the parsed value validates, in this order; the
\* first step that fails gives the error payload and no tool body is
\* entered.  An unknown name gives {"error": "Unknown tool."} even when the
\* argument text is malformed too.
C3_ResolveParseValidate ==
    [][pc = "dispatch" =>
          /\ invoked' # invoked =>
                /\ Call.name \in ToolNames
                /\ Parses(Call)
                /\ KeysValid(Call)
                /\ invoked' = Append(invoked, Call.id)
          /\ Call.name \notin ToolNames =>
                /\ AppendsToolMessage
                /\ messages'[Len(messages')].content = "{\"error\": \"Unknown tool.\"}"
                /\ invoked' = invoked
                /\ <<files, started, fetched>>' = <<files, started, fetched>>
          /\ (Call.name \in ToolNames /\ ~Parses(Call)) =>
                /\ AppendsToolMessage
                /\ messages'[Len(messages')].content
                       = "{\"error\": \"Invalid arguments: JSONDecodeError\"}"
                /\ invoked' = invoked
                /\ <<files, started, fetched>>' = <<files, started, fetched>>
          /\ (Call.name \in ToolNames /\ Parses(Call) /\ ~KeysValid(Call)) =>
                /\ AppendsToolMessage
                /\ messages'[Len(messages')].content \in RefusalPayloads
                /\ invoked' = invoked
                /\ <<files, started, fetched>>' = <<files, started, fetched>>]_vars

\* The request of an unknown tool with a malformed argument text has been
\* answered with "Unknown tool.", after a request of Write with a key the
\* tool does not declare was refused, and no tool body was entered
C3_Witness ==
    /\ step = "DispatchRefuse"
    /\ Len(locals.tool_calls) = 2
    /\ locals.tool_calls[2].name = "Nope"
    /\ ~Parses(locals.tool_calls[2])
    /\ messages[Len(messages) - 1].content
           = "{\"error\": \"Invalid arguments: Additional properties are not allowed\"}"
    /\ messages[Len(messages)].content = "{\"error\": \"Unknown tool.\"}"
    /\ invoked = <<>>

\* C4: an interrupt raised while the k-th request of a batch is dispatched
\* is not converted into a tool message.  The step leaves the conversation
\* as it was, with the tool messages of requests 1..k-1 at its end, and
\* returns to the prompt with the program running; no request after the
\* k-th has been entered, and the next model request is made only in the
\* turn of the next user input.
C4_InterruptLeavesBatch ==
    /\ [](step = "GateInterrupt" =>
             /\ pc = "prompt"
             /\ AnsweredUpTo(k - 1)
             /\ locals.tool_calls[k].id \in Range(invoked)
             /\ \A j \in (k + 1)..Len(locals.tool_calls) :
                    locals.tool_calls[j].id \notin Range(invoked))
    /\ [][(pc \in {"dispatch", "confirm"} /\ step' = "GateInterrupt") =>
             /\ messages' = messages
             /\ pc' = "prompt"
             /\ requests' = requests
             /\ invoked' = invoked
             /\ k' = k]_vars
    /\ [][(step = "GateInterrupt" /\ requests' # requests) =>
             (pc = "prompt" /\ turns' = turns + 1)]_vars

\* The gate of the second request of a batch was interrupted after the
\* first request had been answered
C4_Witness ==
    /\ pc = "prompt"
    /\ step = "GateInterrupt"
    /\ k = 2
    /\ Len(locals.tool_calls) = 2
    /\ messages[Len(messages)].role = "tool"
    /\ messages[Len(messages)].tool_call_id = locals.tool_calls[1].id
    /\ messages[Len(messages)].content = "{\"error\": \"Unknown tool.\"}"

\* C5: whenever control is at the user prompt, every request of every
\* assistant message of the conversation is answered by exactly one tool
\* message carrying its identifier, and a request that ended in an error or
\* an interrupt has left no message in the conversation.
C5_StructureAtPrompt ==
    pc = "prompt" =>
        /\ \A i \in 1..Len(messages) :
               messages[i].role = "assistant" =>
                   \A j \in 1..Len(messages[i].tool_calls) :
                       Cardinality({m \in 1..Len(messages) :
                                       /\ messages[m].role = "tool"
                                       /\ messages[m].tool_call_id = messages[i].tool_calls[j].id})
                           = 1
        /\ step \in {"AttemptTransient", "AttemptTerminal", "AttemptInterrupt"} =>
               messages = issued

\* C6: with a transient error on every attempt, one model request makes
\* exactly 5 attempts, sleeps 0.5, 1, 2 and 4 s between them (1, 2, 4 and 8
\* half seconds), does not sleep after the fifth failure, and then the
\* error of the fifth attempt reaches the turn loop, which reports it.
C6_RetryExhaustion ==
    step = "AttemptTransient" =>
        /\ Len(tries) \in 1..5
        /\ \A i \in 1..Len(tries) : tries[i] \in TransientErrors
        /\ waits = SubSeq(<<1, 2, 4, 8>>, 1, Min(Len(tries), 4))
        /\ Len(tries) < 5 => pc = "request"
        /\ Len(tries) = 5 => (pc \in {"prompt", "exited"} /\ reported = tries[5])

\* The fifth attempt of a request has failed with another transient error
\* than the fourth
C6_Witness ==
    /\ pc = "prompt"
    /\ step = "AttemptTransient"
    /\ Len(tries) = 5
    /\ tries[4] # tries[5]
    /\ waits = <<1, 2, 4, 8>>

\* The provider errors the retry loop does not catch
TerminalErrors == {"BadRequestError", "AuthenticationError", "PermissionDeniedError",
                   "NotFoundError"}

\* The current request has ended in a terminal error, or in the fifth of
\* five transient errors
EndedInError ==
    /\ tries # <<>>
    /\ \/ tries[Len(tries)] \in TerminalErrors
       \/ Len(tries) = 5 /\ \A i \in 1..5 : tries[i] \in TransientErrors

C10_PreviewBeforeCommit ==
    /\ [](pc = "confirm" =>
             /\ pending.name \in ToolNames
             /\ <<files, started, fetched>> = <<pre.files, pre.started, pre.fetched>>)
    /\ [](step = "GateReject" =>
             /\ <<files, started, fetched>> = <<pre.files, pre.started, pre.fetched>>
             /\ messages[Len(messages)].role = "tool"
             /\ messages[Len(messages)].content
                    = IF gate.text # ""
                      THEN "{\"error\": \"User rejected with message: " \o gate.text \o "\"}"
                      ELSE "{\"error\": \"User rejected.\"}")
    /\ [][(~skip_permissions /\ <<files, started, fetched>>' # <<files, started, fetched>>) =>
             (pc = "confirm" /\ gate'.answer \in {"y", ""})]_vars

\* The user said no to a Write that would have replaced the file x, and
\* entered a text
C10_Witness ==
    /\ step = "GateReject"
    /\ gate.text = "no"
    /\ TmpX \in DOMAIN files
    /\ locals.tool_calls[1].name = "Write"
    /\ messages[Len(messages)].content = "{\"error\": \"User rejected with message: no\"}"

---------------------------------------------------------------------------
(* Properties of the tools.                                                 *)

\* The arguments of the first request of the batch, as the tool gets them
FirstArguments == Admit(locals.tool_calls[1]).arguments

\* The start positions at which sub matches text
Occurrences(text, sub) == {i \in 1..(Len(text) + 1) : MatchAt(text, sub, i)}

\* C11: File Editor replaces text only when old_string occurs in the file
\* exactly once, an occurrence being any start position at which it
\* matches.  With no occurrence the call fails with "old_string not found in
\* file.", with more than one with "old_string appears multiple times in
\* file. It must be unique.", and the file is left as it was; with exactly
\* one the content written is the old content with that occurrence replaced.
C11_EditUniqueOccurrence ==
    (pc = "request" /\ step \in {"DispatchPrecheck", "DispatchRun", "GateAccept"}
        /\ locals.tool_calls[1].name = "Edit") =>
        LET old_content == pre.files[TmpX].content
            old_string == FirstArguments.old_string.str
            new_string == FirstArguments.new_string.str
            at == Occurrences(old_content, old_string)
            content == messages[Len(messages)].content
        IN  /\ at = {} =>
                  /\ content = "{\"error\": \"old_string not found in file.\"}"
                  /\ files = pre.files
            /\ Cardinality(at) > 1 =>
                  /\ content = "{\"error\": \"old_string appears multiple times in file. It must be unique.\"}"
                  /\ files = pre.files
            /\ Cardinality(at) = 1 =>
                  \A i \in at :
                      files[TmpX].content
                          = SubSeq(old_content, 1, i - 1) \o new_string
                            \o SubSeq(old_content, i + Len(old_string), Len(old_content))

\* C12: Command Executor with a command still running when the timeout
\* elapses kills the child and raises ToolError "Timed out after <timeout>
\* second(s).", which the dispatcher appends as an error payload.  On the
\* normal path and on the timeout path the reader thread has ended before
\* the main thread reads output_lines, returns or raises, and on the
\* timeout path the child no longer runs.
C12_ReaderJoined ==
    /\ [](pc = "bash" =>
             /\ pending.main \in {"read", "raise"} => pending.thread = "done"
             /\ pending.main \in {"join_killed", "raise"} => pending.child \in {"killed", "exited"})
    /\ [][step' = "BashReturn" =>
             /\ pending.thread = "done"
             /\ pending.pipe = <<>>
             /\ pending.todo = <<>>
             /\ AppendsToolMessage]_vars
    /\ [][step' = "BashRaise" =>
             /\ pending.thread = "done"
             /\ pending.child \in {"killed", "exited"}
             /\ AppendsToolMessage
             /\ messages'[Len(messages')].content
                    = IF "timeout" \in DOMAIN pending.arguments
                      THEN "{\"error\": \"Timed out after 1 second(s).\"}"
                      ELSE "{\"error\": \"Timed out after 60 second(s).\"}"]_vars

\* The call with timeout 1 has ended in the timeout's error payload
C12_Witness ==
    /\ step = "BashRaise"
    /\ pc = "request"
    /\ started = 1
    /\ messages[Len(messages)].content = "{\"error\": \"Timed out after 1 second(s).\"}"

\* Whether a text ends with a suffix
EndsWith(text, suffix) ==
    /\ Len(text) >= Len(suffix)
    /\ SubSeq(text, Len(text) - Len(suffix) + 1, Len(text)) = suffix

\* C13: File Reader truncation thresholds, for the content the read
\* returns.  When the lines selected from offset number at most limit and
\* hold at most chars_limit characters, they are returned (line-numbered)
\* with nothing cut and nothing added; when they number more than limit,
\* one marker line follows the first limit lines; when the content after
\* line truncation holds more than chars_limit characters, the returned
\* content ends with the char-truncation marker and its length is
\* chars_limit + len(marker).
C13_ReadTruncation ==
    (pc = "request" /\ step \in {"DispatchRun", "GateAccept"}
        /\ locals.tool_calls[1].name = "Read") =>
        LET a == FirstArguments
            offset == IF "offset" \in DOMAIN a THEN a.offset.int ELSE 1
            limit == IF "limit" \in DOMAIN a THEN a.limit.int ELSE 1000
            chars_limit == IF "chars_limit" \in DOMAIN a THEN a.chars_limit.int ELSE 65536
            full_lines == SplitLines(pre.files[TmpX].content)
            selected == SubSeq(full_lines, offset, Len(full_lines))
            kept == SubSeq(selected, 1, Min(limit, Len(selected)))
            cut == IF Len(selected) > limit THEN Join(kept) \o LineMarker(limit) ELSE Join(kept)
            returned == ReadResultContent(a, pre.files)
        IN  /\ messages[Len(messages)].content = ReadPayload(a, pre.files)
            /\ (Len(selected) <= limit /\ Len(Join(selected)) <= chars_limit) =>
                   returned = NumberLines(Join(selected), offset)
            /\ (Len(selected) > limit /\ Len(cut) <= chars_limit) =>
                   /\ Len(SplitLines(returned)) = limit + 1
                   /\ SubSeq(returned, 1, Len(NumberLines(Join(kept), offset)))
                          = NumberLines(Join(kept), offset)
                   /\ EndsWith(returned, LineMarker(limit))
            /\ Len(cut) > chars_limit =>
                   /\ EndsWith(returned, CharMarker(chars_limit))
                   /\ Len(returned) = chars_limit + Len(CharMarker(chars_limit))

\* The text of a numbered content with the number and the tab taken off
\* every line again (numbers of at most six digits)
Unnumber(content) ==
    LET lines == SplitLines(content)
    IN  Join([i \in 1..Len(lines) |-> SubSeq(lines[i], 8, Len(lines[i]))])

\* Whether line i of a numbered content starts with the number offset+i-1,
\* right-aligned in six columns, and a tab
Numbered(content, offset) ==
    LET lines == SplitLines(content)
    IN  \A i \in 1..Len(lines) :
            /\ Len(lines[i]) >= 7
            /\ SubSeq(lines[i], 1, 7) = PadLeft(Digits(offset + i - 1), 6) \o <<"\t">>

\* C13 (amended): File Reader truncation thresholds, for the content before
\* its lines are numbered.  When the lines selected from offset number at
\* most limit and hold at most chars_limit characters, that content is
\* exactly those lines; when they number more than limit (and the result
\* holds at most chars_limit characters), it is the first limit lines and
\* one marker line; when the content after line truncation holds more than
\* chars_limit characters, it is the first chars_limit characters and the
\* char-truncation marker, of length chars_limit + len(marker).  The
\* returned content is that content with every line, markers included,
\* prefixed by its line number and a tab.
C13_ReadTruncationBeforeNumbering ==
    (pc = "request" /\ step \in {"DispatchRun", "GateAccept"}
        /\ locals.tool_calls[1].name = "Read") =>
        LET a == FirstArguments
            offset == IF "offset" \in DOMAIN a THEN a.offset.int ELSE 1
            limit == IF "limit" \in DOMAIN a THEN a.limit.int ELSE 1000
            chars_limit == IF "chars_limit" \in DOMAIN a THEN a.chars_limit.int ELSE 65536
            full_content == pre.files[TmpX].content
            full_lines == SplitLines(full_content)
            selected == SubSeq(full_lines, offset, Len(full_lines))
            kept == SubSeq(selected, 1, Min(limit, Len(selected)))
            cut == IF Len(selected) > limit THEN Join(kept) \o LineMarker(limit) ELSE Join(kept)
            returned == ReadResultContent(a, pre.files)
            inner == Unnumber(returned)
        IN  /\ messages[Len(messages)].content
                   = "{\"content\": \"" \o Str(returned) \o "\", \"total_lines\": "
                     \o Str(Digits(Len(full_lines))) \o ", \"total_chars\": "
                     \o Str(Digits(Len(full_content))) \o "}"
            /\ Numbered(returned, offset)
            /\ (Len(selected) <= limit /\ Len(Join(selected)) <= chars_limit) =>
                   inner = Join(selected)
            /\ (Len(selected) > limit /\ Len(cut) <= chars_limit) =>
                   inner = Join(kept) \o LineMarker(limit)
            /\ Len(cut) > chars_limit =>
                   /\ inner = SubSeq(cut, 1, chars_limit) \o CharMarker(chars_limit)
                   /\ Len(inner) = chars_limit + Len(CharMarker(chars_limit))
                   /\ Len(returned) = Len(inner) + 7 * Len(SplitLines(inner))

\* A read of two lines with limit 1 and chars_limit 1 has returned: the
\* line marker was added and then the character cut taken
C13_Witness ==
    /\ pc = "request"
    /\ step \in {"DispatchRun", "GateAccept"}
    /\ locals.tool_calls[1].name = "Read"
    /\ Len(SplitLines(pre.files[TmpX].content)) = 2
    /\ "limit" \in DOMAIN FirstArguments /\ FirstArguments.limit.int = 1
    /\ "chars_limit" \in DOMAIN FirstArguments /\ FirstArguments.chars_limit.int = 1
    /\ "offset" \notin DOMAIN FirstArguments
    /\ EndsWith(ReadResultContent(FirstArguments, pre.files), CharMarker(1))
    /\ messages[Len(messages)].role = "tool"

\* The File Writer's preconditions in the order of the claim, each with the
\* message of its failure; the last three apply when the path exists
WriteChecks(a, fs) ==
    LET path == a.file_path.str
        parent == IF Dirname(path) = <<>> THEN <<".">> ELSE Dirname(path)
        there == path \in DOMAIN fs
    IN  <<[holds |-> path # <<>> /\ Head(path) = "/",
           message |-> "file_path must be an absolute path."],
          [holds |-> parent \in DOMAIN fs,
           message |-> "dirname(file_path) does not exist."],
          [holds |-> parent \in DOMAIN fs /\ fs[parent].w,
           message |-> "dirname(file_path) is not writable."],
          [holds |-> there => a.overwrite.bool,
           message |-> "file_path already exists and overwrite is false."],
          [holds |-> there => fs[path].kind = "file",
           message |-> "file_path already exists and is not a regular file."],
          [holds |-> there => fs[path].w,
           message |-> "file_path already exists and is not writable."]>>

\* The indices of the checks that fail
WriteFailing(a, fs) == {i \in 1..6 : ~WriteChecks(a, fs)[i].holds}

---------------------------------------------------------------------------
(* Properties of the stream loop, checked under SpecStream.                 *)

\* The whole stream of the request: what was taken and what is to come
WholeStream == locals.seen \o locals.stream

RECURSIVE Fragments(_)
\* The tool-call fragments of a stream, in order of arrival
Fragments(chunks) ==
    IF chunks = <<>> THEN <<>>
    ELSE LET chunk == Head(chunks)
             here == IF chunk.choices # <<>> /\ "tool_calls" \in DOMAIN chunk.choices[1].delta
                     THEN chunk.choices[1].delta.tool_calls
                     ELSE <<>>
         IN  here \o Fragments(Tail(chunks))

\* Every identifier-less fragment arrives after some identifier-bearing one
Orderly(fr) ==
    \A i \in 1..Len(fr) :
        "id" \notin DOMAIN fr[i] => \E j \in 1..(i - 1) : "id" \in DOMAIN fr[j]

\* The position of the j-th identifier-bearing fragment; beyond the last
\* one, the position after the last fragment
Opener(fr, j) ==
    LET at == {i \in 1..Len(fr) :
                  /\ "id" \in DOMAIN fr[i]
                  /\ Cardinality({h \in 1..i : "id" \in DOMAIN fr[h]}) = j}
    IN  IF at = {} THEN Len(fr) + 1 ELSE CHOOSE i \in at : TRUE

RECURSIVE NameSlices(_)
\* The name slices of some fragments, concatenated in order
NameSlices(fr) ==
    IF fr = <<>> THEN ""
    ELSE (IF "name" \in DOMAIN Head(fr) THEN Head(fr).name ELSE "") \o NameSlices(Tail(fr))

RECURSIVE ArgumentSlices(_)
\* The argument slices of some fragments, concatenated in order
ArgumentSlices(fr) ==
    IF fr = <<>> THEN <<>>
    ELSE (IF "arguments" \in DOMAIN Head(fr) THEN Head(fr).arguments ELSE <<>>)
         \o ArgumentSlices(Tail(fr))

\* C15: stream assembly of tool calls.  For a stream in which every
\* identifier-less tool-call fragment arrives after some identifier-bearing
\* one, the assembly raises nothing and the assistant message holds one
\* request per identifier-bearing fragment, in order of arrival, whose name
\* and argument text are the concatenation of the slices of its opening
\* fragment and of the identifier-less fragments up to the next opening
\* fragment - whether or not the argument text is well-formed.
C15_ToolCallAssembly ==
    LET fr == Fragments(WholeStream)
        n == Cardinality({i \in 1..Len(fr) : "id" \in DOMAIN fr[i]})
    IN  Orderly(fr) =>
            /\ pc # "crashed"
            /\ step = "StreamEnd" =>
                   LET requested == messages[Len(messages)].tool_calls
                   IN  /\ messages[Len(messages)].role = "assistant"
                       /\ Len(requested) = n
                       /\ \A j \in 1..n :
                              LET mine == SubSeq(fr, Opener(fr, j), Opener(fr, j + 1) - 1)
                              IN  /\ requested[j].id = fr[Opener(fr, j)].id
                                  /\ requested[j].type = "function"
                                  /\ requested[j].function.name = NameSlices(mine)
                                  /\ requested[j].function.arguments = ArgumentSlices(mine)

\* A call opened without a name, then named, then given "}" as its last
\* argument slice in the delta that opens the next call: two requests, the
\* first with an argument text that is not JSON
C15_Witness ==
    /\ step = "StreamEnd"
    /\ Len(locals.seen) = 3
    /\ Len(messages[Len(messages)].tool_calls) = 2
    /\ messages[Len(messages)].tool_calls[1].function
           = [name |-> "o", arguments |-> <<RBrace>>]
    /\ ~JsonLoads(messages[Len(messages)].tool_calls[1].function.arguments).ok
    /\ messages[Len(messages)].tool_calls[2].function
           = [name |-> "M", arguments |-> <<LBrace>>]

\* The deltas of the chunks of a stream that carry a choice
Deltas(chunks) ==
    LET with == SelectSeq(chunks, LAMBDA chunk : chunk.choices # <<>>)
    IN  [i \in 1..Len(with) |-> with[i].choices[1].delta]

RECURSIVE ReasoningText(_)
\* The reasoning text slices of some deltas, concatenated in order
ReasoningText(deltas) ==
    IF deltas = <<>> THEN ""
    ELSE LET d == Head(deltas)
         IN  (IF "reasoning_content" \in DOMAIN d THEN d.reasoning_content
              ELSE IF "reasoning" \in DOMAIN d THEN d.reasoning
              ELSE "") \o ReasoningText(Tail(deltas))

RECURSIVE ReasoningBlocks(_)
\* The reasoning detail blocks of some deltas, in order
ReasoningBlocks(deltas) ==
    IF deltas = <<>> THEN <<>>
    ELSE (IF "reasoning_details" \in DOMAIN Head(deltas)
          THEN Head(deltas).reasoning_details ELSE <<>>) \o ReasoningBlocks(Tail(deltas))

FinishAt(chunks) ==
    {i \in 1..Len(chunks) :
        chunks[i].choices # <<>> /\ "finish_reason" \in DOMAIN chunks[i].choices[1]}

\* The positions of the chunks of a stream that carry a usage snapshot
UsageAt(chunks) == {i \in 1..Len(chunks) : "usage" \in DOMAIN chunks[i]}

\* The greatest element of a non-empty set of numbers
Last(S) == CHOOSE i \in S : \A j \in S : j <= i

\* C17: when the stream is exhausted the loop holds the last-seen finish
\* reason and the last-seen usage snapshot: the finish reason of the last
\* chunk that carried a finish signal (none if no chunk did), and the usage
\* snapshot of the last chunk of the stream that carried one, whether or
\* not that chunk also carries a choice (none if no chunk did); that
\* snapshot decides the compaction.
C17_LastFinishAndUsage ==
    step = "StreamEnd" =>
        LET chunks == locals.seen
        IN  /\ "finish_reason" \in DOMAIN locals <=> FinishAt(chunks) # {}
            /\ FinishAt(chunks) # {} =>
                   locals.finish_reason = chunks[Last(FinishAt(chunks))].choices[1].finish_reason
            /\ "usage" \in DOMAIN locals <=> UsageAt(chunks) # {}
            /\ UsageAt(chunks) # {} =>
                   /\ locals.usage = chunks[Last(UsageAt(chunks))].usage
                   /\ compact_in # <<>>
                          <=> chunks[Last(UsageAt(chunks))].usage.total_tokens * 100
                                 > 80 * ContextWindow

---------------------------------------------------------------------------
(* Properties of the turn loop, checked under Spec and SpecStream.          *)

\* C18: in every reachable state of the turn loop the conversation is
\* non-empty and its first element is the system message created at
\* startup; no step - user append, assistant append, tool-result append,
\* compaction, transport error, interrupt - removes, replaces or moves it,
\* and every model request is issued with it in front.
C18_SystemMessageFirst ==
    /\ Len(messages) >= 1
    /\ messages[1] = [role |-> "system", content |-> "You are MiniCode"]
    /\ \A i \in 2..Len(messages) : messages[i].role # "system"
    /\ Len(issued) >= 1
    /\ issued[1] = messages[1]

\* A conversation of more than three messages has been compacted, a tool
\* message in it was rewritten, and the turn is back at the prompt
C18_Witness ==
    /\ pc = "prompt"
    /\ Len(compact_in) > 3
    /\ \E i \in 2..Len(compact_in) :
           /\ compact_in[i].role = "tool"
           /\ i <= Len(messages)
           /\ messages[i] # compact_in[i]

\* The position of the last assistant message of the conversation
AssistantAt == Last({i \in 1..Len(messages) : messages[i].role = "assistant"})

\* C19: within one turn, after an assistant message is appended the loop
\* issues a further model request exactly if that message holds at least
\* one tool-call request, once all of them are dispatched and answered,
\* whatever finish reason was reported; when the message holds no
\* tool-call request nothing is dispatched and control is back at the
\* user prompt.
C19_FurtherRequest ==
    step \in {"StreamEnd", "DispatchRefuse"} =>
        LET message == messages[AssistantAt]
            answers == Len(messages) - AssistantAt
        IN  /\ \A i \in (AssistantAt + 1)..Len(messages) : messages[i].role = "tool"
            /\ IF message.tool_calls = <<>>
               THEN /\ step = "StreamEnd"
                    /\ pc = "prompt"
                    /\ requests = 1
                    /\ answers = 0
                    /\ invoked = <<>>
               ELSE IF answers < Len(message.tool_calls)
               THEN /\ pc = "dispatch"
                    /\ k = answers + 1
                    /\ requests = 1
               ELSE /\ answers = Len(message.tool_calls)
                    /\ pc = "request"
                    /\ requests = 2
                    /\ issued = messages
                    /\ tries = <<>>

\* The stream ended with the finish reason "stop" and yet held a tool-call
\* request; it was answered and the further request is issued
C19_Witness ==
    /\ step = "DispatchRefuse"
    /\ pc = "request"
    /\ requests = 2
    /\ "finish_reason" \in DOMAIN locals
    /\ locals.finish_reason = "stop"
    /\ Len(messages[AssistantAt].tool_calls) = 1

\* Whether a usage snapshot strictly exceeds 80% of the context window
Exceeds(usage) == usage.total_tokens * 5 > ContextWindow * 4

\* C20: the turn loop invokes compaction only when the completed stream
\* reported a usage snapshot whose total-token count strictly exceeds 80%
\* of the context window: with every snapshot at exactly 80% or below, or
\* with no snapshot reported, the conversation is not compacted.  Of the
\* snapshots that came on chunks with a choice the last one decides, and
\* when the snapshots of a stream do not decrease a compaction means that
\* the last snapshot of the stream exceeds 80%.
C20_CompactionThreshold ==
    step = "StreamEnd" =>
        LET chunks == locals.seen
            read == {i \in UsageAt(chunks) : chunks[i].choices # <<>>}
            compacted == compact_in # <<>>
        IN  /\ compacted => \E i \in UsageAt(chunks) : Exceeds(chunks[i].usage)
            /\ compacted <=> (read # {} /\ Exceeds(chunks[Last(read)].usage))
            /\ (compacted /\ \A i, j \in UsageAt(chunks) :
                                i <= j => chunks[i].usage.total_tokens <= chunks[j].usage.total_tokens)
                   => Exceeds(chunks[Last(UsageAt(chunks))].usage)
            /\ compacted =>
                   /\ compact_in = Append(issued, messages[Len(messages)])
                   /\ messages[Len(messages)].role = "assistant"

\* A stream reported exactly 80% and then one token more: the conversation
\* was given to the compactor
C20_Witness ==
    /\ step = "StreamEnd"
    /\ Len(locals.seen) = 2
    /\ "usage" \in DOMAIN locals.seen[1] /\ locals.seen[1].usage.total_tokens * 5 = ContextWindow * 4
    /\ "usage" \in DOMAIN locals.seen[2] /\ locals.seen[2].usage.total_tokens = 102401
    /\ Len(compact_in) = 3

---------------------------------------------------------------------------
(* Properties of the order of compaction, retries and dispatch, checked     *)
(* under Spec.                                                              *)

\* C21: compaction is invoked only after the current turn's assistant
\* message and any tool results have been appended: at the moment compact
\* runs, the conversation holds the assistant message just assembled and
\* the tool messages answering that message's tool-call requests.
C21_CompactAfterToolResults ==
    [][compact_in' # compact_in =>
          LET a == LastAssistant(compact_in')
          IN  /\ a > 0
              /\ compact_in'[a] = BuildMessage(locals')
              /\ \A j \in 1..Len(compact_in'[a].tool_calls) :
                     \E i \in (a + 1)..Len(compact_in') :
                        /\ compact_in'[i].role = "tool"
                        /\ compact_in'[i].tool_call_id = compact_in'[a].tool_calls[j].id]_vars

\* C21 (amended): compaction is invoked only after the assistant message of
\* the current request has been appended and before any of its tool-call
\* requests is dispatched: at the moment compact runs, the conversation is
\* the one the request was made with followed by the assistant message just
\* assembled, which is its last message: no tool message follows it yet.
C21_CompactBeforeDispatch ==
    [][compact_in' # compact_in =>
          LET n == Len(compact_in')
          IN  /\ pc = "request"
              /\ n = Len(messages) + 1
              /\ SubSeq(compact_in', 1, n - 1) = messages
              /\ compact_in'[n].role = "assistant"
              /\ compact_in'[n].content = locals'.content
              /\ Len(compact_in'[n].tool_calls) = Len(locals'.tool_calls)
              /\ \A j \in 1..Len(locals'.tool_calls) :
                     compact_in'[n].tool_calls[j].id = locals'.tool_calls[j].id
              /\ invoked' = <<>>
              /\ Len(messages') = n
              /\ messages'[n] = compact_in'[n]
              /\ pc' = IF locals'.tool_calls = <<>> THEN "prompt" ELSE "dispatch"]_vars

\* The compactor was given a conversation whose last message requests a
\* tool, after the tool message of an earlier request, and the request is
\* still to be dispatched
C21_Witness ==
    /\ step = "AttemptStream"
    /\ pc = "dispatch"
    /\ Len(compact_in) = Len(messages)
    /\ Len(compact_in) >= 5
    /\ compact_in[Len(compact_in)].role = "assistant"
    /\ compact_in[Len(compact_in)].tool_calls # <<>>
    /\ compact_in[Len(compact_in) - 1].role = "tool"
    /\ messages[Len(messages)] = compact_in[Len(compact_in)]

---------------------------------------------------------------------------
(* Properties of the retry loop around the stream loop, checked under       *)
(* SpecRestart.                                                             *)

RECURSIVE VisibleText(_)
\* The visible text slices of some deltas, concatenated in order
VisibleText(deltas) ==
    IF deltas = <<>> THEN ""
    ELSE (IF "content" \in DOMAIN Head(deltas) THEN Head(deltas).content ELSE "")
         \o VisibleText(Tail(deltas))

\* The tool-call requests that some fragments, taken alone, amount to
RequestsOf(fr) ==
    [j \in 1..Cardinality({i \in 1..Len(fr) : "id" \in DOMAIN fr[i]}) |->
        LET mine == SubSeq(fr, Opener(fr, j), Opener(fr, j + 1) - 1)
        IN  [id |-> fr[Opener(fr, j)].id,
             type |-> "function",
             function |-> [name |-> NameSlices(mine), arguments |-> ArgumentSlices(mine)]]]

\* C22: assembler state from a failed attempt is discarded.  When attempts
\* of a request failed with transient errors, some after chunks were taken,
\* and a later attempt succeeds, exactly one assistant message is appended
\* for the request, and its text, reasoning and tool calls are those of the
\* chunks of the successful attempt alone; the requests dispatched are that
\* message's.
C22_FailedAttemptDiscarded ==
    /\ step = "StreamEnd" =>
           LET message == messages[Len(messages)]
               deltas == Deltas(locals.seen)
           IN  /\ messages = Append(issued, message)
               /\ message.role = "assistant"
               /\ message.content = VisibleText(deltas)
               /\ message.tool_calls = RequestsOf(Fragments(locals.seen))
               /\ IF \E i \in 1..Len(deltas) : "reasoning_content" \in DOMAIN deltas[i]
                  THEN message.reasoning_content = ReasoningText(deltas)
                  ELSE "reasoning_content" \notin DOMAIN message
               /\ "reasoning_details" \notin DOMAIN message
    /\ pc = "dispatch" =>
           /\ Len(locals.tool_calls) = Len(RequestsOf(Fragments(locals.seen)))
           /\ \A j \in 1..Len(locals.tool_calls) :
                  /\ locals.tool_calls[j].id = RequestsOf(Fragments(locals.seen))[j].id
                  /\ locals.tool_calls[j].name = RequestsOf(Fragments(locals.seen))[j].function.name
    /\ step \in {"RestartOpen", "RestartTransient", "StreamChunk", "StreamRaise"} =>
           messages = issued

\* The first attempt failed after it had taken a fragment that opens a
\* call and a slice of text; the second attempt brought hidden text only
\* and succeeded: the message has no call and no visible text
C22_Witness ==
    /\ step = "StreamEnd"
    /\ tries = <<"RateLimitError", "ok">>
    /\ Fragments(locals.failed) # <<>>
    /\ VisibleText(Deltas(locals.failed)) = "Hello"
    /\ locals.seen = <<Chunk([reasoning_content |-> "r"])>>
    /\ messages[Len(messages)].tool_calls = <<>>
    /\ messages[Len(messages)].content = ""
    /\ pc = "prompt"

---------------------------------------------------------------------------
(* Properties of the conversation over whole runs, checked under Spec.      *)

\* The position of the nearest assistant message before position i of the
\* conversation, 0 if none
AssistantBefore(i) == LastAssistant(SubSeq(messages, 1, i - 1))

\* The identifiers an assistant message requests
RequestIds(message) == {message.tool_calls[j].id : j \in 1..Len(message.tool_calls)}

\* C23: with call identifiers unique, after any sequence of turns,
\* compactions, transport errors and interrupts every tool message of the
\* conversation answers a request of the nearest preceding assistant
\* message, only tool messages lie between the two, and no request is
\* answered by more than one tool message.
C23_ToolMessagesFollowTheirRequest ==
    \A i \in 1..Len(messages) :
        messages[i].role = "tool" =>
            LET a == AssistantBefore(i)
            IN  /\ a > 0
                /\ \A h \in (a + 1)..i : messages[h].role = "tool"
                /\ messages[i].tool_call_id \in RequestIds(messages[a])
                /\ \A h \in (a + 1)..Len(messages) :
                       (h # i /\ messages[h].role = "tool" /\ AssistantBefore(h) = a)
                           => messages[h].tool_call_id # messages[i].tool_call_id

\* A turn with two tool messages was compacted, which rewrote the first of
\* them, and the user has entered the next message
C23_Witness ==
    /\ turns = 2
    /\ messages[Len(messages)].role = "user"
    /\ Len(compact_in) > 3
    /\ \E i \in 1..(Len(messages) - 1) :
           /\ messages[i].role = "tool"
           /\ messages[i].content = Placeholder
           /\ messages[i + 1].role = "tool"
           /\ messages[i + 1].content # Placeholder

\* C24: the retry budget and the backoff are per model request, not per
\* turn.  Every model request, the one that follows a tool round-trip
\* included, starts with 5 attempts and a first wait of 0.5 s (one half
\* second), whatever earlier requests of the turn used up: while a request
\* is open, what is left of its budget and its next wait depend only on the
\* attempts of this request that failed, so a turn with R requests can
\* make up to 5*R attempts.
C24_BudgetPerRequest ==
    /\ Len(tries) <= 5
    /\ pc = "request" =>
           /\ Len(tries) <= 4
           /\ \A i \in 1..Len(tries) : tries[i] \in TransientErrors
           /\ retries_left = 5 - Len(tries)
           /\ delay = <<1, 2, 4, 8, 16>>[Len(tries) + 1]
           /\ waits = SubSeq(<<1, 2, 4, 8>>, 1, Len(tries))
    /\ (pc = "request" /\ step \in DeliverSteps \cup {"UserInput"}) =>
           /\ tries = <<>>
           /\ retries_left = 5
           /\ delay = 1

\* The second request of a turn, made after a tool round-trip, has failed
\* five times: with the attempt that the first request needed at least,
\* the turn has made more than five attempts
C24_Witness ==
    /\ turns = 1
    /\ requests = 2
    /\ step = "AttemptTransient"
    /\ pc = "prompt"
    /\ Len(tries) = 5
    /\ waits = <<1, 2, 4, 8>>
    /\ messages[Len(messages)].role = "tool"

---------------------------------------------------------------------------
(* Further properties of the stream loop, checked under SpecStream.         *)

\* C25: stream assembly never terminates the program.  For every stream,
\* one whose first tool-call fragment carries no identifier included, the
\* program does not end: when the stream loop is left, either one assistant
\* message was appended to the conversation of the request, or the turn
\* ended with a reported error and control is back at the prompt with the
\* conversation as it was.
C25_AssemblyNeverEndsProgram ==
    /\ pc # "crashed"
    /\ step = "StreamEnd" =>
           /\ Len(messages) = Len(issued) + 1
           /\ messages[Len(messages)].role = "assistant"
    /\ step = "StreamRaise" =>
           /\ pc = "prompt"
           /\ reported # ""
           /\ messages = issued

---------------------------------------------------------------------------
(* Further properties of the Command Executor, checked under SpecBashHeir.  *)

\* C26: a Command Executor call always terminates once its child process
\* has exited or has been killed on timeout: from then on, until the tool
\* has returned its result or raised the timeout's ToolError, one of its
\* two threads can always take its next step - the reader thread reads or
\* ends, the join completes - even while a descendant of the command holds
\* the output pipe open.
C26_BashTerminates ==
    (pc = "bash" /\ pending.main # "popen" /\ pending.child \in {"exited", "killed"})
        => ENABLED BashThreads

---------------------------------------------------------------------------
(* Further properties of the compactor, checked under SpecCompactTwice.     *)

\* C27: compact is idempotent.  For every conversation m,
\* compact(compact(m)) equals compact(m): a second compaction with no new
\* message in between returns the conversation it was given.
C27_CompactIdempotent ==
    pc = "recompacted" =>
        /\ messages = compact_in
        /\ Len(messages) >= 1
        /\ messages[1] = SystemMessage

\* A conversation of more than three messages has been compacted twice;
\* its span holds a rewritten tool message, and its last message is a tool
\* message that both compactions left as it was
C27_Witness ==
    /\ pc = "recompacted"
    /\ Len(messages) > 3
    /\ \E i \in MiddleSpan(Len(messages)) :
           messages[i].role = "tool" /\ messages[i].content = Placeholder
    /\ messages[Len(messages)].role = "tool"
    /\ messages[Len(messages)].content # Placeholder

=============================================================================
